---- MODULE Spec2Model ----
(***************************************************************************)
(* NL2FOFA: the query-translation and execution pipeline.                  *)
(*                                                                         *)
(*   Orchestrator.processUserQuery   (src/src/orchestrator.ts)             *)
(*   Orchestrator.executeDirectQuery (src/src/orchestrator.ts)             *)
(*   LLMService.convertTextToFofaQuery (src/src/llmService.ts)             *)
(*   FofaService.executeFofaQuery    (src/src/resultPresenter.ts, the      *)
(*                                    FofaService class at lines 159-266)  *)
(*                                                                         *)
(* JavaScript strings are TLA+ strings; a character is a string of length  *)
(* one.  A JavaScript value is a record [t, v]: t is the value's type and  *)
(* v the text that String(value) gives.  User-visible messages are         *)
(* rendered in ASCII; the source text of each is quoted next to it.        *)
(***************************************************************************)
EXTENDS Integers, Sequences, FiniteSets, TLC

(***************************************************************************)
(* Bounds of the model.                                                    *)
(***************************************************************************)
\* longest caller-supplied query string of the direct mode
MaxQueryLen == 3
\* longest query a serialized model answer carries
MaxAnswerLen == 2
\* most tool calls an MCP server process is sent
MaxToolCalls == 2
\* invocations in flight at once on one Orchestrator or one MCP server
MaxInvocations == 2
\* texts one LLMService is given, one after the other
MaxPrompts == 2

(***************************************************************************)
(* Strings.                                                                *)
(***************************************************************************)
Char(s, i) == SubSeq(s, i, i)

Positions(s) == 1..Len(s)

\* String.prototype.includes for a needle of any length
Includes(s, needle) ==
  \E i \in 1..(Len(s) - Len(needle) + 1) :
      SubSeq(s, i, i + Len(needle) - 1) = needle

\* the characters String.prototype.trim removes (those the model uses)
WhiteSpace == {" ", "\t", "\n", "\r"}

\* the regular expression class \w
WordChars ==
  {"a","b","c","d","e","f","g","h","i","j","k","l","m",
   "n","o","p","q","r","s","t","u","v","w","x","y","z",
   "A","B","C","D","E","F","G","H","I","J","K","L","M",
   "N","O","P","Q","R","S","T","U","V","W","X","Y","Z",
   "0","1","2","3","4","5","6","7","8","9","_"}

RECURSIVE TrimStart(_)
TrimStart(s) ==
  IF Len(s) > 0 /\ Char(s, 1) \in WhiteSpace THEN TrimStart(Tail(s)) ELSE s

RECURSIVE TrimEnd(_)
TrimEnd(s) ==
  IF Len(s) > 0 /\ Char(s, Len(s)) \in WhiteSpace
    THEN TrimEnd(SubSeq(s, 1, Len(s) - 1))
    ELSE s

\* String.prototype.trim
Trim(s) == TrimEnd(TrimStart(s))

\* (s.match(/c/g) || []).length for a one-character pattern c
MatchCount(s, c) == Cardinality({i \in Positions(s) : Char(s, i) = c})

(***************************************************************************)
(* JavaScript values.                                                      *)
(***************************************************************************)
Str(s)    == [t |-> "string",    v |-> s]
Num(d)    == [t |-> "number",    v |-> d]
Bool(b)   == [t |-> "boolean",   v |-> IF b THEN "true" ELSE "false"]
Null      == [t |-> "null",      v |-> "null"]
Undefined == [t |-> "undefined", v |-> "undefined"]
Obj       == [t |-> "object",    v |-> "[object Object]"]

\* ToBoolean: what `!x` and `if (x)` look at
Truthy(x) ==
  CASE x.t = "string"    -> x.v # ""
    [] x.t = "number"    -> x.v # "0"
    [] x.t = "boolean"   -> x.v = "true"
    [] x.t = "null"      -> FALSE
    [] x.t = "undefined" -> FALSE
    [] OTHER             -> TRUE

\* the text a template literal `${x}` inserts
TemplateText(x) == x.v

(***************************************************************************)
(* Errors.  A thrown value is a record; isError is `instanceof Error`,     *)
(* isAxios is axios.isAxiosError, status is error.response?.status (0 when *)
(* there is no response) and code is error.code.                           *)
(***************************************************************************)
NoStatus == 0

NewError(msg) ==
  [isError |-> TRUE, isAxios |-> FALSE, status |-> NoStatus, code |-> "",
   message |-> msg]

\* `x.trim is not a function`, `Cannot read properties of undefined`, ...
TypeError(msg) == NewError("TypeError: " \o msg)

AxiosError(status, code, msg) ==
  [isError |-> TRUE, isAxios |-> TRUE, status |-> status, code |-> code,
   message |-> msg]

\* '未知错误'
MSG_UNKNOWN == "unknown error"

\* error instanceof Error ? error.message : '未知错误'
ErrorMessage(e) == IF e.isError THEN e.message ELSE MSG_UNKNOWN

(***************************************************************************)
(* FofaService (src/src/resultPresenter.ts, lines 159-266).                *)
(***************************************************************************)
\* '无效的FOFA查询语法: '
MSG_INVALID_QUERY == "invalid FOFA query syntax: "
\* 'FOFA API返回错误，请检查查询语法或API配置'
MSG_API_ERROR == "FOFA API returned an error, check the query syntax or the API configuration"
\* 'FOFA API认证失败，请检查email和API key配置'
MSG_AUTH_FAILED == "FOFA API authentication failed, check the email and API key configuration"
\* 'FOFA API访问被拒绝，可能是查询配额不足'
MSG_ACCESS_DENIED == "FOFA API access denied, the query quota may be exhausted"
\* 'FOFA API请求超时，请稍后重试'
MSG_TIMED_OUT == "FOFA API request timed out, try again later"
\* 'FOFA查询执行失败: '
MSG_QUERY_FAILED == "FOFA query execution failed: "

\* mutation: the operator test and the word test joined by && instead of ||
hasValidSyntaxBoth(q) ==
  /\ \E i \in Positions(q) : Char(q, i) \in {"=", ":"}
  /\ \E i \in Positions(q) : Char(q, i) \in WordChars

\* /[=:]/.test(query) || /\w+/.test(query)
hasValidSyntax(q) ==
  \/ \E i \in Positions(q) : Char(q, i) \in {"=", ":"}
  \/ \E i \in Positions(q) : Char(q, i) \in WordChars

\* mutation: the quote check left out
quotesUnchecked(q) == TRUE

\* const quotes = query.match(/"/g); !quotes || quotes.length % 2 === 0
quotesBalanced(q) == MatchCount(q, "\"") % 2 = 0

\* openParens === closeParens
parensBalanced(q) == MatchCount(q, "(") = MatchCount(q, ")")

\* FofaService.validateQuery on a string
validateString(q) ==
  IF q = "" \/ Len(Trim(q)) = 0
    THEN FALSE
    ELSE hasValidSyntax(q) /\ quotesBalanced(q) /\ parensBalanced(q)

\* FofaService.validateQuery on any value the callers can pass at run time:
\* "true", "false", or "threw" (query.trim / query.match is not a function)
validateQuery(query) ==
  IF ~Truthy(query) THEN "false"
  ELSE IF query.t # "string" THEN "threw"
  ELSE IF validateString(query.v) THEN "true" ELSE "false"

\* executeFofaQuery(query, size = 100, page = 1)
FofaDefaultSize == 100
FofaDefaultPage == 1
\* timeout: 30000
FofaTimeoutMs == 30000

\* fields: 'ip,port,title,host'
FofaFields == "ip,port,title,host"

\* the configuration the services are constructed with
FofaEmail  == "user@example.com"
FofaApiKey == "fofa-key"

\* character codes (Buffer.from(query, 'utf-8')) of the ASCII characters
\* 32..95 and 97..126, and of tab, line feed and carriage return
AsciiLow  == " !\"#$%&'()*+,-./0123456789:;<=>?@ABCDEFGHIJKLMNOPQRSTUVWXYZ[\\]^_"
AsciiHigh == "abcdefghijklmnopqrstuvwxyz{|}~"

CharCode(c) ==
  CASE c = "\t" -> 9
    [] c = "\n" -> 10
    [] c = "\r" -> 13
    [] \E i \in Positions(AsciiLow) : Char(AsciiLow, i) = c ->
         31 + (CHOOSE i \in Positions(AsciiLow) : Char(AsciiLow, i) = c)
    [] OTHER ->
         96 + (CHOOSE i \in Positions(AsciiHigh) : Char(AsciiHigh, i) = c)

B64Chars == "ABCDEFGHIJKLMNOPQRSTUVWXYZabcdefghijklmnopqrstuvwxyz0123456789+/"

B64(n) == Char(B64Chars, n + 1)

\* Buffer.from(s, 'utf-8').toString('base64') for ASCII s
RECURSIVE Base64(_)
Base64(s) ==
  IF Len(s) = 0 THEN ""
  ELSE LET a == CharCode(Char(s, 1))
           b == IF Len(s) >= 2 THEN CharCode(Char(s, 2)) ELSE 0
           c == IF Len(s) >= 3 THEN CharCode(Char(s, 3)) ELSE 0
       IN  B64(a \div 4)
           \o B64((a % 4) * 16 + (b \div 16))
           \o (IF Len(s) >= 2 THEN B64((b % 16) * 4 + (c \div 64)) ELSE "=")
           \o (IF Len(s) >= 3 THEN B64(c % 64) ELSE "=")
           \o (IF Len(s) > 3 THEN Base64(SubSeq(s, 4, Len(s))) ELSE "")

\* the params and options of axios.get(`${FOFA_API_BASE}/api/v1/search/all`)
FofaRequest(query, size, page) ==
  [email   |-> FofaEmail,
   key     |-> FofaApiKey,
   qbase64 |-> Base64(query),
   fields  |-> FofaFields,
   size    |-> size,
   page    |-> page,
   timeout |-> FofaTimeoutMs]

\* mutation: a position the row lacks is left undefined
CellWithoutDefault(row, i) ==
  IF i + 1 <= Len(row) THEN row[i + 1] ELSE Undefined

\* result[i] || ''   (i counted from 0, as in the source)
Cell(row, i) ==
  IF i + 1 <= Len(row) /\ Truthy(row[i + 1]) THEN row[i + 1] ELSE Str("")

\* FofaService.transformResults; rawResults is [present, rows]
transformResults(rawResults) ==
  IF ~rawResults.present \/ Len(rawResults.rows) = 0
    THEN << >>
    ELSE [k \in 1..Len(rawResults.rows) |->
            [ip    |-> Cell(rawResults.rows[k], 0),
             port  |-> Cell(rawResults.rows[k], 1),
             title |-> Cell(rawResults.rows[k], 2),
             host  |-> Cell(rawResults.rows[k], 3)]]

\* what a call of a service method ends with: a value or a thrown error
NoError == NewError("")
Returned(x) == [threw |-> FALSE, err |-> NoError, value |-> x]
Threw(e)    == [threw |-> TRUE,  err |-> e,       value |-> << >>]

\* mutation: the timeout test moved in front of the status tests
ClassifyFofaErrorTimeoutFirst(error) ==
  IF error.isAxios /\ error.code = "ECONNABORTED"
    THEN NewError(MSG_TIMED_OUT)
  ELSE IF error.isAxios /\ error.status = 401
    THEN NewError(MSG_AUTH_FAILED)
  ELSE IF error.isAxios /\ error.status = 403
    THEN NewError(MSG_ACCESS_DENIED)
  ELSE NewError(MSG_QUERY_FAILED \o ErrorMessage(error))

\* the catch block of executeFofaQuery (lines 234-246)
ClassifyFofaError(error) ==
  IF error.isAxios /\ error.status = 401
    THEN NewError(MSG_AUTH_FAILED)
  ELSE IF error.isAxios /\ error.status = 403
    THEN NewError(MSG_ACCESS_DENIED)
  ELSE IF error.isAxios /\ error.code = "ECONNABORTED"
    THEN NewError(MSG_TIMED_OUT)
  ELSE NewError(MSG_QUERY_FAILED \o ErrorMessage(error))

\* mutation: the validation of lines 201-204 left out
ExecuteFofaQueryStartUnvalidated(query, size, page) ==
  IF query.t # "string"
    THEN Threw(TypeError("The first argument must be of type string"))
    ELSE Returned(<<FofaRequest(query.v, size, page)>>)

\* executeFofaQuery up to its await: the validation (lines 201-204), then
\* the request handed to axios.get (lines 206-224)
ExecuteFofaQueryStart(query, size, page) ==
  LET v == validateQuery(query) IN
  IF v = "threw"
    THEN Threw(TypeError("query.trim is not a function"))
  ELSE IF v = "false"
    THEN Threw(NewError(MSG_INVALID_QUERY \o TemplateText(query)))
  ELSE Returned(<<FofaRequest(query.v, size, page)>>)

\* executeFofaQuery after its await (lines 226-246); reply is what axios.get
\* ended with: [ok, data, err]
ExecuteFofaQueryFinish(reply) ==
  IF ~reply.ok
    THEN Threw(ClassifyFofaError(reply.err))
  ELSE IF Truthy(reply.data.error)
    THEN Threw(ClassifyFofaError(NewError(MSG_API_ERROR)))
  ELSE Returned(transformResults(reply.data.results))

(***************************************************************************)
(* ResultPresenter, as far as the pipeline depends on it: presentResults   *)
(* runs inside the orchestrator's try block and calls string methods on    *)
(* the fields of every record (truncateString on title and host, split on  *)
(* ip), so a field that is truthy and not a string makes it throw.         *)
(***************************************************************************)
NotAString(x) == Truthy(x) /\ x.t # "string"

PresentResultsThrows(results) ==
  \E k \in 1..Len(results) :
      \/ NotAString(results[k].title)
      \/ NotAString(results[k].host)
      \/ NotAString(results[k].ip)

(***************************************************************************)
(* Orchestrator (src/src/orchestrator.ts).                                 *)
(***************************************************************************)
\* resultSize: number = 50
DefaultResultSize == 50

\* '直接FOFA查询'
MSG_DIRECT_QUERY == "direct FOFA query"
\* `无法理解您的查询请求: "${userInput}"\n${llmResponse.explanation}`
MSG_NOT_UNDERSTOOD == "cannot understand your query request: \""

\* ProcessResult; fields is the set of keys the returned object has
NoResult ==
  [kind |-> "none", success |-> FALSE, fields |-> {}, data |-> << >>,
   error |-> "", query |-> Undefined, explanation |-> Undefined]

\* { success: true, data, query, explanation }
SuccessResult(data, query, explanation) ==
  [kind |-> "returned", success |-> TRUE,
   fields |-> {"success", "data", "query", "explanation"},
   data |-> data, error |-> "", query |-> query, explanation |-> explanation]

\* { success: false, error }
FailureResult(msg) ==
  [kind |-> "returned", success |-> FALSE, fields |-> {"success", "error"},
   data |-> << >>, error |-> msg, query |-> Undefined,
   explanation |-> Undefined]

\* an invocation that ends by throwing to its caller
RaisedResult(e) ==
  [kind |-> "raised", success |-> FALSE, fields |-> {}, data |-> << >>,
   error |-> ErrorMessage(e), query |-> Undefined, explanation |-> Undefined]

\* mutation: the catch block returns { success: false } alone
OrchestratorCatchWithoutError(error) ==
  [FailureResult(ErrorMessage(error)) EXCEPT !.fields = {"success"}]

\* mutation: the catch block rethrows what is not one of the services' own
\* classified errors
OrchestratorCatchRethrows(error) ==
  IF SubSeq(error.message, 1, 10) = "TypeError:"
    THEN RaisedResult(error)
    ELSE FailureResult(ErrorMessage(error))

\* the catch blocks of processUserQuery and executeDirectQuery
OrchestratorCatch(error) == FailureResult(ErrorMessage(error))

\* the rest of the try block once executeFofaQuery has ended with `out`:
\* presentResults, then the success object
AfterFofaQuery(out, query, explanation) ==
  IF out.threw
    THEN OrchestratorCatch(out.err)
  ELSE IF PresentResultsThrows(out.value)
    THEN OrchestratorCatch(TypeError("str.substring is not a function"))
  ELSE SuccessResult(out.value, query, explanation)

\* mutation: `fofa_query === null` instead of `!fofa_query`
HasQueryNotNull(response) == response.fofa_query # Null

\* if (!llmResponse.fofa_query) { return failure } : the query is usable
HasQuery(response) == Truthy(response.fofa_query)

\* the omitted optional argument
NoSize == -1
\* resultSize: number = 50
EffectiveSize(sizeArg) == IF sizeArg = NoSize THEN DefaultResultSize ELSE sizeArg

(***************************************************************************)
(* Text helpers of LLMService.                                             *)
(*                                                                         *)
(* A TLA+ string cannot hold the backquote character, so the model writes  *)
(* "~" for it: Fence is the markdown fence of three backquotes.            *)
(***************************************************************************)
Fence == "~~~"

StartsWith(s, p) == Len(s) >= Len(p) /\ SubSeq(s, 1, Len(p)) = p

EndsWith(s, p) == Len(s) >= Len(p) /\ SubSeq(s, Len(s) - Len(p) + 1, Len(s)) = p

Drop(s, n) == SubSeq(s, n + 1, Len(s))

\* s.replace(/^<opening>\s*/, "") for an s that starts with opening
StripOpening(s, opening) == TrimStart(Drop(s, Len(opening)))

\* s.replace(/\s*```$/, "")
StripClosingFence(s) ==
  IF EndsWith(s, Fence) THEN TrimEnd(SubSeq(s, 1, Len(s) - Len(Fence))) ELSE s

\* mutation: only the fence tagged json is stripped
CleanContentTaggedOnly(content) ==
  LET cleanContent == Trim(content) IN
  IF StartsWith(cleanContent, Fence \o "json")
    THEN StripClosingFence(StripOpening(cleanContent, Fence \o "json"))
    ELSE cleanContent

\* lines 38-49 of convertTextToFofaQuery
CleanContent(content) ==
  LET unfenced(cleanContent) ==
        IF StartsWith(cleanContent, Fence \o "json")
          THEN StripClosingFence(StripOpening(cleanContent, Fence \o "json"))
        ELSE IF StartsWith(cleanContent, Fence)
          THEN StripClosingFence(StripOpening(cleanContent, Fence))
        ELSE cleanContent
  IN  unfenced(Trim(content))

(***************************************************************************)
(* JSON.parse, for the JSON texts the model feeds it: objects (nested      *)
(* ones too), strings with the escapes \" \\ \/ \n \r \t, integers, true,  *)
(* false and null, with white space anywhere JSON allows it.  A parse      *)
(* gives [ok, val, props, rest]: val is the value, props the members of an *)
(* object in source order, rest the text after the value.                  *)
(***************************************************************************)
Digits == {"0","1","2","3","4","5","6","7","8","9"}

ParseFail == [ok |-> FALSE, val |-> Undefined, props |-> << >>, rest |-> ""]

ParseOk(val, props, rest) ==
  [ok |-> TRUE, val |-> val, props |-> props, rest |-> rest]

\* the characters of a JSON string after its opening quote
RECURSIVE ParseStringBody(_, _)
ParseStringBody(s, acc) ==
  IF Len(s) = 0 THEN ParseFail
  ELSE LET c == Char(s, 1) IN
    IF c = "\"" THEN ParseOk(Str(acc), << >>, Tail(s))
    ELSE IF c = "\\" THEN
      IF Len(s) < 2 THEN ParseFail
      ELSE LET e == Char(s, 2) IN
        IF e \in {"\"", "\\", "/"} THEN ParseStringBody(Drop(s, 2), acc \o e)
        ELSE IF e = "n" THEN ParseStringBody(Drop(s, 2), acc \o "\n")
        ELSE IF e = "r" THEN ParseStringBody(Drop(s, 2), acc \o "\r")
        ELSE IF e = "t" THEN ParseStringBody(Drop(s, 2), acc \o "\t")
        ELSE ParseFail
    ELSE IF c \in {"\n", "\r", "\t"} THEN ParseFail
    ELSE ParseStringBody(Tail(s), acc \o c)

RECURSIVE DigitRun(_)
DigitRun(s) ==
  IF Len(s) > 0 /\ Char(s, 1) \in Digits THEN 1 + DigitRun(Tail(s)) ELSE 0

\* an integer: -?(0|[1-9][0-9]*)
ParseNumber(s) ==
  LET sign == IF StartsWith(s, "-") THEN 1 ELSE 0
      n    == DigitRun(Drop(s, sign))
  IN  IF n = 0 \/ (n > 1 /\ Char(s, sign + 1) = "0")
        THEN ParseFail
        ELSE ParseOk(Num(SubSeq(s, 1, sign + n)), << >>, Drop(s, sign + n))

RECURSIVE ParseValue(_), ParseMembers(_, _)
ParseValue(text) ==
  LET s == TrimStart(text) IN
  IF StartsWith(s, "{") THEN
    LET t == TrimStart(Tail(s)) IN
    IF StartsWith(t, "}") THEN ParseOk(Obj, << >>, Tail(t))
    ELSE ParseMembers(t, << >>)
  ELSE IF StartsWith(s, "\"") THEN ParseStringBody(Tail(s), "")
  ELSE IF StartsWith(s, "null") THEN ParseOk(Null, << >>, Drop(s, 4))
  ELSE IF StartsWith(s, "true") THEN ParseOk(Bool(TRUE), << >>, Drop(s, 4))
  ELSE IF StartsWith(s, "false") THEN ParseOk(Bool(FALSE), << >>, Drop(s, 5))
  ELSE ParseNumber(s)

\* the members of an object from the first key on, up to the closing brace
ParseMembers(text, props) ==
  LET s == TrimStart(text) IN
  IF ~StartsWith(s, "\"") THEN ParseFail
  ELSE LET k == ParseStringBody(Tail(s), "") IN
    IF ~k.ok THEN ParseFail
    ELSE LET afterKey == TrimStart(k.rest) IN
      IF ~StartsWith(afterKey, ":") THEN ParseFail
      ELSE LET v == ParseValue(Tail(afterKey)) IN
        IF ~v.ok THEN ParseFail
        ELSE LET r     == TrimStart(v.rest)
                 added == Append(props, [key |-> k.val.v, val |-> v.val])
             IN  IF StartsWith(r, ",") THEN ParseMembers(Tail(r), added)
                 ELSE IF StartsWith(r, "}") THEN ParseOk(Obj, added, Tail(r))
                 ELSE ParseFail

\* JSON.parse(text): ok is FALSE where JSON.parse throws a SyntaxError
JsonParse(text) ==
  LET whole(r) == IF r.ok /\ TrimStart(r.rest) = "" THEN r ELSE ParseFail
  IN  whole(ParseValue(text))

\* parsed.key for a parsed value that is not null: the last member with
\* that key of an object, undefined on anything else
Property(parsed, key) ==
  LET hits == {i \in 1..Len(parsed.props) : parsed.props[i].key = key} IN
  IF hits = {} THEN Undefined
  ELSE parsed.props[CHOOSE i \in hits : \A j \in hits : j <= i].val

(***************************************************************************)
(* The regular expressions of extractFromText.                             *)
(***************************************************************************)
NoMatch == [found |-> FALSE, group |-> ""]

\* index of the first double quote of s, 0 when it has none
FirstQuote(s) ==
  IF \E i \in Positions(s) : Char(s, i) = "\""
    THEN CHOOSE i \in Positions(s) :
           Char(s, i) = "\"" /\ \A j \in 1..(i - 1) : Char(s, j) # "\""
    ELSE 0

\* \s*"([^"]+)" anchored at the start of s
QuotedValue(s) ==
  LET t == TrimStart(s) IN
  IF ~StartsWith(t, "\"") THEN NoMatch
  ELSE LET close == FirstQuote(Tail(t)) IN
    IF close <= 1 THEN NoMatch
    ELSE [found |-> TRUE, group |-> SubSeq(Tail(t), 1, close - 1)]

\* "key"\s*:\s*"([^"]+)" anchored at position i of text
KeyValueAt(text, key, i) ==
  LET quotedKey == "\"" \o key \o "\""
      s == Drop(text, i - 1)
  IN  IF ~StartsWith(s, quotedKey) THEN NoMatch
      ELSE LET t == TrimStart(Drop(s, Len(quotedKey))) IN
        IF ~StartsWith(t, ":") THEN NoMatch ELSE QuotedValue(Tail(t))

\* text.match(/"key"\s*:\s*"([^"]+)"/): the leftmost match
MatchKeyValue(text, key) ==
  LET hits == {i \in Positions(text) : KeyValueAt(text, key, i).found} IN
  IF hits = {} THEN NoMatch
  ELSE KeyValueAt(text, key, CHOOSE i \in hits : \A j \in hits : i <= j)

\* :\s*"([^"]+)" anchored at position i of line
ColonValueAt(line, i) ==
  IF Char(line, i) # ":" THEN NoMatch ELSE QuotedValue(Drop(line, i))

\* line.match(/:\s*"([^"]+)"/): the leftmost match
MatchColonValue(line) ==
  LET hits == {i \in Positions(line) : ColonValueAt(line, i).found} IN
  IF hits = {} THEN NoMatch
  ELSE ColonValueAt(line, CHOOSE i \in hits : \A j \in hits : i <= j)

\* text.split("\n")
RECURSIVE SplitLines(_)
SplitLines(text) ==
  IF \E i \in Positions(text) : Char(text, i) = "\n"
    THEN LET i == CHOOSE k \in Positions(text) :
                    Char(text, k) = "\n" /\ \A j \in 1..(k - 1) : Char(text, j) # "\n"
         IN  <<SubSeq(text, 1, i - 1)>> \o SplitLines(Drop(text, i))
    ELSE <<text>>

(***************************************************************************)
(* LLMService (src/src/llmService.ts, lines 1-302).                        *)
(***************************************************************************)
\* "无法解析LLM响应"
MSG_PARSE_FAILED == "unable to parse the LLM response"
\* "从文本中提取的查询"
MSG_FROM_TEXT == "query extracted from the text"
\* "无法解析API响应格式"
MSG_BAD_FORMAT == "unable to parse the API response format"
\* `LLM服务调用失败: `
MSG_LLM_FAILED == "LLM service call failed: "

LLMResponse(q, e) == [fofa_query |-> q, explanation |-> e]

\* the for loop of extractFromText (lines 276-289) from line k on; acc holds
\* fofaQuery and explanation
RECURSIVE ScanLines(_, _, _)
ScanLines(lines, k, acc) ==
  IF k > Len(lines) THEN acc
  ELSE LET line == lines[k]
           m    == MatchColonValue(line)
           q    == IF Includes(line, "fofa_query") /\ Includes(line, ":") /\ m.found
                     THEN Str(m.group) ELSE acc.fofa_query
           e    == IF Includes(line, "explanation") /\ Includes(line, ":") /\ m.found
                     THEN Str(m.group) ELSE acc.explanation
       IN  ScanLines(lines, k + 1, LLMResponse(q, e))

\* mutation: the line scan returns the explanation it accumulated, without
\* the fixed text in place of an empty one
extractFromTextNoDefault(text) ==
  LET lineScan(scanned) == LLMResponse(scanned.fofa_query, scanned.explanation)
      patterns(queryMatch, explanationMatch) ==
        IF queryMatch.found /\ explanationMatch.found
          THEN LLMResponse(Str(queryMatch.group), Str(explanationMatch.group))
          ELSE lineScan(ScanLines(SplitLines(text), 1, LLMResponse(Null, Str(""))))
  IN  patterns(MatchKeyValue(text, "fofa_query"), MatchKeyValue(text, "explanation"))

\* LLMService.extractFromText
extractFromText(text) ==
  LET lineScan(scanned) ==
        LLMResponse(scanned.fofa_query,
                    IF Truthy(scanned.explanation)
                      THEN scanned.explanation
                      ELSE Str(MSG_FROM_TEXT))
      patterns(queryMatch, explanationMatch) ==
        IF queryMatch.found /\ explanationMatch.found
          THEN LLMResponse(Str(queryMatch.group), Str(explanationMatch.group))
          ELSE lineScan(ScanLines(SplitLines(text), 1, LLMResponse(Null, Str(""))))
  IN  patterns(MatchKeyValue(text, "fofa_query"), MatchKeyValue(text, "explanation"))

\* mutation: an object without a usable fofa_query is handed to the catch
\* block like text that is not JSON
StrictParseRequiresQuery(content) ==
  LET parsedResponse == JsonParse(CleanContent(content)) IN
  IF ~parsedResponse.ok \/ ~Truthy(Property(parsedResponse, "fofa_query"))
    THEN Threw(NewError("SyntaxError: Unexpected token in JSON"))
    ELSE Returned(LLMResponse(Property(parsedResponse, "fofa_query"),
                              Property(parsedResponse, "explanation")))

\* the inner try block of convertTextToFofaQuery (lines 36-56): JSON.parse
\* throws a SyntaxError on text that is not JSON, and reading a property of
\* the parsed value throws a TypeError when that value is null
StrictParse(content) ==
  LET fields(parsedResponse) ==
        IF ~parsedResponse.ok
          THEN Threw(NewError("SyntaxError: Unexpected token in JSON"))
        ELSE IF parsedResponse.val.t = "null"
          THEN Threw(TypeError("Cannot read properties of null (reading 'fofa_query')"))
        ELSE Returned(LLMResponse(Property(parsedResponse, "fofa_query"),
                                  Property(parsedResponse, "explanation")))
  IN  fields(JsonParse(CleanContent(content)))

\* the inner catch block (lines 57-70)
ParseFallback(content) ==
  LET chosen(fallbackResult) ==
        IF Truthy(fallbackResult.fofa_query)
          THEN Returned(fallbackResult)
          ELSE Returned(LLMResponse(Null, Str(MSG_PARSE_FAILED)))
  IN  chosen(extractFromText(content))

\* mutation: the inner catch handles the SyntaxError of JSON.parse alone
ParseContentSyntaxErrorOnly(content) ==
  LET strict == StrictParse(content) IN
  IF strict.threw /\ StartsWith(strict.err.message, "SyntaxError")
    THEN ParseFallback(content)
    ELSE strict

\* lines 36-70 of convertTextToFofaQuery: from the content to what the
\* try/catch ends with
ParseContent(content) ==
  LET caught(strict) == IF strict.threw THEN ParseFallback(content) ELSE strict
  IN  caught(StrictParse(content))

\* timeout: 300000
LlmTimeoutMs == 300000
\* max_tokens: 500
LlmMaxTokens == 500
\* thinking_budget: 4096
LlmThinkingBudget == 4096
\* the request without a thinking_budget key
NoThinkingBudget == 0

LlmApiKey == "llm-key"

UpperCase == "ABCDEFGHIJKLMNOPQRSTUVWXYZ"
LowerCase == "abcdefghijklmnopqrstuvwxyz"

\* String.prototype.toLowerCase on ASCII text
RECURSIVE ToLowerCase(_)
ToLowerCase(s) ==
  IF Len(s) = 0 THEN ""
  ELSE LET c == Char(s, 1)
           l == IF \E i \in Positions(UpperCase) : Char(UpperCase, i) = c
                  THEN Char(LowerCase, CHOOSE i \in Positions(UpperCase) : Char(UpperCase, i) = c)
                  ELSE c
       IN  l \o ToLowerCase(Tail(s))

\* LLMService.buildPrompt (lines 86-182): the fixed grammar reference and
\* rules, the user's text under its heading, the output requirements
PromptHead == "... ## 4. user request\n"
PromptTail == "\n\n## 5. output requirements ...\n---\n"

buildPrompt(userInput) == PromptHead \o userInput \o PromptTail

\* LLMService.buildRequest (lines 189-232), with the url and the timeout
\* axios.post is given (lines 28-31)
buildRequest(apiUrl, prompt) ==
  LET request(siliconflow) ==
        [url             |-> apiUrl,
         model           |-> IF siliconflow THEN "deepseek-ai/DeepSeek-V3.1"
                                            ELSE "gpt-3.5-turbo",
         messages        |-> <<[role |-> "user", content |-> prompt]>>,
         thinking_budget |-> IF siliconflow THEN LlmThinkingBudget ELSE NoThinkingBudget,
         temperature     |-> "0.1",
         max_tokens      |-> LlmMaxTokens,
         authorization   |-> "Bearer " \o LlmApiKey,
         timeout         |-> LlmTimeoutMs]
  IN  request(Includes(ToLowerCase(apiUrl), "siliconflow.cn"))

\* The source holds LLMService three times: the class of llmService.ts
\* (lines 1-302), a second class in the same file (lines 304-575) and
\* src/unnamed/part_002.  The build holds one of them.
CurrentVersion == "llmService.ts"
LlmVersions == {CurrentVersion, "llmService.ts (second class)", "part_002"}

\* buildPrompt of the second class (llmService.ts:389-456): the grammar
\* reference and the examples, then the user's text at the very end
PromptHeadSecond == "... ## the user request to handle:\n"
\* buildPrompt of part_002 (lines 86-195): the grammar reference, the task,
\* the rules and two worked examples; the parameter is not used
PromptPart002 == "... ## 4. examples\n**user request**: \"Find nginx servers in the US ...\"\n---"

\* buildPrompt as the given version has it
buildPromptOf(version, userInput) ==
  IF version = CurrentVersion THEN buildPrompt(userInput)
  ELSE IF version = "part_002" THEN PromptPart002
  ELSE PromptHeadSecond \o userInput

\* buildRequest as the given version has it: the two older versions name
\* another SiliconFlow model and set no thinking budget (llmService.ts:
\* 463-505, part_002:202-244)
buildRequestOf(version, apiUrl, prompt) ==
  LET request(current) ==
        IF version = CurrentVersion THEN current
        ELSE [current EXCEPT
                !.model = IF @ = "gpt-3.5-turbo" THEN @
                          ELSE "deepseek-ai/DeepSeek-R1-Distill-Qwen-7B",
                !.thinking_budget = NoThinkingBudget]
  IN  request(buildRequest(apiUrl, prompt))

(***************************************************************************)
(* A response body of the completion service: body is "object" or "null";  *)
(* candidates and choices are [shape, text] with shape                     *)
(*   "absent"   the key is missing (or falsy),                             *)
(*   "empty"    an empty list, so that [0] is undefined,                   *)
(*   "broken"   [0] exists but the path down to the text does not,         *)
(*   "nulltext" the path exists and the text is null,                      *)
(*   "text"     the path exists and the text is the string `text`.         *)
(***************************************************************************)
Slot(shape, text) == [shape |-> shape, text |-> text]

\* one envelope shape of extractContent: has [0], and the text under it
SlotMatches(slot) == slot.shape \notin {"absent", "empty"}

SlotText(slot) ==
  IF slot.shape = "text"
    THEN Returned(Trim(slot.text))
  ELSE IF slot.shape = "nulltext"
    THEN Threw(TypeError("Cannot read properties of null (reading 'trim')"))
  ELSE Threw(TypeError("Cannot read properties of undefined"))

\* LLMService.extractContent
extractContent(responseData) ==
  IF responseData.body = "null"
    THEN Threw(TypeError("Cannot read properties of null (reading 'candidates')"))
  ELSE IF SlotMatches(responseData.candidates)
    THEN SlotText(responseData.candidates)
  ELSE IF SlotMatches(responseData.choices)
    THEN SlotText(responseData.choices)
  ELSE Threw(NewError(MSG_BAD_FORMAT))

\* the outer catch of convertTextToFofaQuery (lines 71-78)
LlmCatch(error) == NewError(MSG_LLM_FAILED \o ErrorMessage(error))

\* mutation: a failed request ends like an answer nothing could be read from
ConvertTextFinishSwallows(reply) ==
  IF ~reply.ok
    THEN Returned(LLMResponse(Null, Str(MSG_PARSE_FAILED)))
  ELSE LET content == extractContent(reply.data) IN
       IF content.threw
         THEN Threw(LlmCatch(content.err))
         ELSE ParseContent(content.value)

\* convertTextToFofaQuery after its await (lines 33-78); reply is what
\* axios.post ended with: [ok, data, err]
ConvertTextFinish(reply) ==
  LET rethrown(out)   == IF out.threw THEN Threw(LlmCatch(out.err)) ELSE out
      parsed(content) == IF content.threw THEN content ELSE ParseContent(content.value)
  IN  IF ~reply.ok
        THEN Threw(LlmCatch(reply.err))
        ELSE rethrown(parsed(extractContent(reply.data)))

(***************************************************************************)
(* The environment: what the callers pass and what the two remote          *)
(* services (through axios) answer.                                        *)
(***************************************************************************)
\* the characters of the caller-supplied query strings: white space, the
\* quote, the parentheses, the two operators, a word character, another
\* character
QueryAlphabet == {" ", "\"", "(", ")", "=", ":", "a", "&"}

RECURSIVE StringsOfLen(_)
StringsOfLen(n) ==
  IF n = 0 THEN {""}
  ELSE {s \o c : s \in StringsOfLen(n - 1), c \in QueryAlphabet}

QueryStrings == UNION {StringsOfLen(n) : n \in 0..MaxQueryLen}

UserInputs == {"", "nginx in US", "port > 80"}

SizeArgs == {NoSize, 10}

ApiUrls == {"https://api.openai.com/v1/chat/completions",
            "https://API.SiliconFlow.cn/v1/chat/completions"}

\* error.message of the errors axios raises
AxiosMessage(status, code, timeoutText) ==
  IF code = "ECONNABORTED" THEN "timeout of " \o timeoutText \o "ms exceeded"
  ELSE IF status = 401 THEN "Request failed with status code 401"
  ELSE IF status = 403 THEN "Request failed with status code 403"
  ELSE IF status = 500 THEN "Request failed with status code 500"
  ELSE "Network Error"

\* what a failed axios call can raise: any response status (or none) with
\* any error code, and an error that is not an axios error
RequestErrors(timeoutText) ==
  {AxiosError(st, code, AxiosMessage(st, code, timeoutText)) :
     st \in {NoStatus, 401, 403, 500},
     code \in {"ECONNABORTED", "ERR_NETWORK", "ERR_BAD_REQUEST"}}
  \cup {NewError("socket hang up")}

\* rows of the search response
Row4    == <<Str("1.2.3.4"), Str("80"), Str("nginx"), Str("a.example.com")>>
Row2    == <<Str("5.6.7.8"), Str("443")>>
RowNull == <<Str("9.9.9.9"), Null, Str(""), Str("h.example.com")>>
RowNum  == <<Str("1.1.1.1"), Num("80"), Num("7"), Str("n.example.com")>>

Rows(rows)  == [present |-> TRUE, rows |-> rows]
NoRows      == [present |-> FALSE, rows |-> << >>]

FofaResultLists ==
  {NoRows, Rows(<< >>), Rows(<<Row4, Row2>>), Rows(<< << >> >>),
   Rows(<<RowNull, Row4>>), Rows(<<RowNum>>)}

\* response.data of the search service
FofaDatas ==
  {[error |-> e, results |-> r] : e \in {Bool(FALSE), Undefined}, r \in FofaResultLists}
  \cup {[error |-> Bool(TRUE), results |-> r] : r \in {NoRows, Rows(<<Row4, Row2>>)}}

NoFofaData == [error |-> Undefined, results |-> NoRows]

FofaReplies ==
  {[ok |-> TRUE, data |-> d, err |-> NoError] : d \in FofaDatas}
  \cup {[ok |-> FALSE, data |-> NoFofaData, err |-> e] : e \in RequestErrors("30000")}

\* JSON text of a string value
RECURSIVE JsonEscape(_)
JsonEscape(s) ==
  IF Len(s) = 0 THEN ""
  ELSE LET c == Char(s, 1) IN
       (IF c = "\"" THEN "\\\""
        ELSE IF c = "\\" THEN "\\\\"
        ELSE IF c = "\n" THEN "\\n"
        ELSE c) \o JsonEscape(Tail(s))

JsonString(s) == "\"" \o JsonEscape(s) \o "\""

\* the object the prompt asks the model for; q and e are JSON texts
JsonAnswer(q, e) == "{\"fofa_query\":" \o q \o ",\"explanation\":" \o e \o "}"

\* queries a model may answer with: well formed, unbalanced, blank
AnswerQueries == {"app=\"nginx\" && country=\"US\"", "port=80", "app=\"nginx", " "}

AnswerExplanations == {"nginx servers in the US", ""}

\* raw texts of the completion service
RawTexts ==
  {JsonAnswer(JsonString(q), JsonString(e)) : q \in AnswerQueries, e \in AnswerExplanations}
  \cup {Fence \o "json\n" \o JsonAnswer(JsonString(q), JsonString("fenced")) \o "\n" \o Fence :
          q \in AnswerQueries}
  \cup {Fence \o "\n" \o JsonAnswer(JsonString("port=80"), JsonString("plain fence")) \o "\n" \o Fence,
        "  " \o JsonAnswer(JsonString("port=80"), JsonString("padded")) \o " \n",
        JsonAnswer("null", JsonString("ambiguous request")),
        JsonAnswer("\"\"", JsonString("empty query")),
        JsonAnswer("80", JsonString("a number")),
        JsonAnswer("0", JsonString("zero")),
        JsonAnswer("true", JsonString("a boolean")),
        JsonAnswer("{\"a\":1}", JsonString("an object")),
        JsonAnswer(JsonString("port=80"), "null"),
        "{\"fofa_query\":\"port=80\"}",
        "{\"explanation\":\"no query key\"}",
        "{\"fofa_query\":\"port=80\",\"fofa_query\":\"port=443\",\"explanation\":\"twice\"}",
        "{}", "null", "42", "\"port=80\"", "",
        "I cannot help with that.",
        "Here it is: " \o JsonAnswer(JsonString("port=80"), JsonString("with prose")),
        Fence \o "json\n" \o JsonAnswer(JsonString("port=80"), JsonString("unterminated")),
        Fence \o "json\n" \o Fence \o "\n" \o JsonAnswer(JsonString("port=80"), JsonString("nested"))
          \o "\n" \o Fence \o "\n" \o Fence,
        "\"fofa_query\": \"country=\\\"US\\\"\"\n\"explanation\": \"y\"",
        "fofa_query: \"port=80\"\nexplanation: \"web servers\"",
        "fofa_query: \"port=80\"",
        "\"fofa_query\": null, \"explanation\": \"too vague\"",
        "{\"fofa_query\": \"port=80\", \"explanation\": \"trailing comma\",}",
        "explanation: \"only an explanation\""}

\* the characters of the queries a serialized answer carries: the ones JSON
\* escapes, the fence character, the closing brace, white space, a letter
AnswerAlphabet == {"\"", "\\", "\n", "~", "}", " ", "a"}

RECURSIVE AnswerStringsOfLen(_)
AnswerStringsOfLen(n) ==
  IF n = 0 THEN {""}
  ELSE {s \o c : s \in AnswerStringsOfLen(n - 1), c \in AnswerAlphabet}

\* fofa_query of a serialized answer: a string, or null
AnswerValues ==
  {Str(s) : s \in UNION {AnswerStringsOfLen(n) : n \in 0..MaxAnswerLen}} \cup {Null}

\* explanation of a serialized answer
AnswerTexts ==
  {"", "y", "too vague", "say \"hi\"", "a\\b", "two\nlines", Fence, "}",
   "\"fofa_query\": \"x\""}

\* JSON text of a fofa_query value
JsonValue(v) == IF v.t = "string" THEN JsonString(v.v) ELSE "null"

\* how the model presents the object: bare or inside a fence, tagged or not,
\* with white space around it
Wrappings == {"bare", "padded", "fence", "json fence", "padded json fence",
              "fence on one line"}

Wrap(wrapping, json) ==
  CASE wrapping = "bare"              -> json
    [] wrapping = "padded"            -> " \n" \o json \o "\n  "
    [] wrapping = "fence"             -> Fence \o "\n" \o json \o "\n" \o Fence
    [] wrapping = "json fence"        -> Fence \o "json\n" \o json \o "\n" \o Fence
    [] wrapping = "padded json fence" -> "\n " \o Fence \o "json \n\n" \o json
                                           \o " \n" \o Fence \o " \n"
    [] wrapping = "fence on one line" -> Fence \o " " \o json \o " " \o Fence

\* the response body (choices shape) whose message content is text
ChoicesBody(text) ==
  [body |-> "object", candidates |-> Slot("absent", ""), choices |-> Slot("text", text)]

ContentShapes == {"absent", "empty", "broken", "nulltext", "text"}

\* the texts of the two envelope shapes when a response carries both
CandidatesText == JsonAnswer(JsonString("port=80"), JsonString("from candidates"))
ChoicesText    == JsonAnswer(JsonString("port=443"), JsonString("from choices"))

\* response.data of the completion service
LlmDatas ==
  {[body |-> "null", candidates |-> Slot("absent", ""), choices |-> Slot("absent", "")]}
  \cup {[body |-> "object",
         candidates |-> Slot(a, IF a = "text" THEN CandidatesText ELSE ""),
         choices    |-> Slot(b, IF b = "text" THEN ChoicesText ELSE "")] :
          a \in ContentShapes, b \in ContentShapes}
  \cup {[body |-> "object", candidates |-> Slot("absent", ""), choices |-> Slot("text", t)] :
          t \in RawTexts}
  \cup {[body |-> "object", candidates |-> Slot("text", t), choices |-> Slot("absent", "")] :
          t \in RawTexts}

NoLlmData == [body |-> "null", candidates |-> Slot("absent", ""), choices |-> Slot("absent", "")]

LlmReplies ==
  {[ok |-> TRUE, data |-> d, err |-> NoError] : d \in LlmDatas}
  \cup {[ok |-> FALSE, data |-> NoLlmData, err |-> e] : e \in RequestErrors("300000")}

(***************************************************************************)
(* State.                                                                  *)
(***************************************************************************)
VARIABLES
  apiUrl,        \* LLMConfig.apiUrl the Orchestrator was constructed with
  pc,            \* where the invocation is: "idle", "awaitLLM", "awaitFofa", "done"
  mode,          \* "none", "nl" (processUserQuery), "direct" (executeDirectQuery)
  userInput,     \* the caller's text: userInput or fofaQuery
  sizeArg,       \* the caller's resultSize, NoSize when omitted
  llmRequests,   \* the requests sent to the completion service, in order
  llmReplies,    \* what axios.post ended with, in order
  llmResponse,   \* << >> or <<the LLMResponse convertTextToFofaQuery returned>>
  fofaCalls,     \* the arguments executeFofaQuery was called with and what
                 \* validateQuery said of the query, in order
  fofaRequests,  \* the requests sent to the search service, in order
  fofaReplies,   \* what axios.get ended with, in order
  fofaResults,   \* the lists executeFofaQuery returned, in order
  clientErrors,  \* the errors the two clients threw to the orchestrator
  events,        \* the remote traffic and the return, in order
  result,        \* the ProcessResult returned, NoResult before the return
  answerQuery,       \* extraction alone: the fofa_query the model answers with
  answerExplanation, \* and its explanation
  answerWrapping,    \* and how the object is wrapped
  answerPc,          \* "drawn", "answered", "extracted"
  rawText,           \* the message content of the response
  extracted,         \* << >> or <<what convertTextToFofaQuery ended with>>
  proc,          \* a process: "none", "cli" (index.ts) or "mcp" (mcp-server.ts)
  procState,     \* "new", "running" or "serving", "exit0", "exit1"
  env,           \* the required environment variables that are set
  llmService,    \* NL2FOFAMCPServer.llmService is not null
  fofaService,   \* NL2FOFAMCPServer.fofaService is not null
  toolCalls,     \* number of tool calls the MCP server has taken up
  serviceBuilds, \* number of times initializeServices built the two services
  toolRequest,   \* << >> or <<the tool call being handled, or handled last>>
  toolResponse,  \* << >> or <<the text the last tool call was answered with>>
  detections,    \* where the process found configuration missing, in order
  invocations,   \* invocations in flight at once: what each one's closure holds
  llmVersion     \* the version of LLMService the build holds

vars == <<apiUrl, pc, mode, userInput, sizeArg, llmRequests, llmReplies,
          llmResponse, fofaCalls, fofaRequests, fofaReplies, fofaResults,
          clientErrors, events, result, answerQuery, answerExplanation,
          answerWrapping, answerPc, rawText, extracted, proc, procState, env,
          llmService, fofaService, toolCalls, serviceBuilds, toolRequest,
          toolResponse,
          detections, invocations, llmVersion>>

\* the variables of an invocation through the orchestrator
pipelineVars == <<llmVersion, apiUrl, pc, mode, userInput, sizeArg, llmRequests, llmReplies,
                  llmResponse, fofaCalls, fofaRequests, fofaReplies,
                  fofaResults, clientErrors, events, result>>

\* the variables of an extraction on its own
answerVars == <<answerQuery, answerExplanation, answerWrapping, answerPc,
                rawText, extracted>>

\* the variables of a process (CLI or MCP server)
procVars == <<proc, procState, env, llmService, fofaService, toolCalls,
              serviceBuilds,
              toolRequest, toolResponse, detections>>

\* LLM_API_KEY, FOFA_EMAIL, FOFA_API_KEY
EnvVars == {"LLM_API_KEY", "FOFA_EMAIL", "FOFA_API_KEY"}

\* no process: the orchestrator is driven by its caller
NoProcess ==
  /\ proc = "none"
  /\ procState = "new"
  /\ env = EnvVars
  /\ llmService = FALSE
  /\ fofaService = FALSE
  /\ toolCalls = 0
  /\ serviceBuilds = 0
  /\ toolRequest = << >>
  /\ toolResponse = << >>
  /\ detections = << >>

\* an invocation: where it is, the arguments it was called with, the remote
\* traffic of its own awaits, the llmResponse it holds, and << >> or <<what
\* it returned>>
NoCall ==
  [pc |-> "idle", mode |-> "none", input |-> Undefined, size |-> NoSize,
   llmRequests |-> << >>, llmReplies |-> << >>, llmResponse |-> << >>,
   fofaRequests |-> << >>, fofaReplies |-> << >>, out |-> << >>]

Slots == 1..MaxInvocations

\* no invocation beside the one the pipeline variables describe
NoCalls == invocations = [i \in Slots |-> NoCall]

Init ==
  /\ apiUrl \in ApiUrls
  /\ llmVersion = CurrentVersion
  /\ pc = "idle"
  /\ mode = "none"
  /\ userInput = ""
  /\ sizeArg = NoSize
  /\ llmRequests = << >>
  /\ llmReplies = << >>
  /\ llmResponse = << >>
  /\ fofaCalls = << >>
  /\ fofaRequests = << >>
  /\ fofaReplies = << >>
  /\ fofaResults = << >>
  /\ clientErrors = << >>
  /\ events = << >>
  /\ result = NoResult
  /\ answerQuery = Null
  /\ answerExplanation = ""
  /\ answerWrapping = "bare"
  /\ answerPc = "drawn"
  /\ rawText = ""
  /\ extracted = << >>
  /\ NoProcess
  /\ NoCalls

(***************************************************************************)
(* Actions: one per stretch of a handler between two awaits.               *)
(***************************************************************************)
\* `await this.fofaService.executeFofaQuery(query, resultSize)` up to the
\* await of axios.get, or up to the orchestrator's catch when the
\* validation throws; before lists the events that precede the call
CallExecuteFofaQuery(query, size, before) ==
  LET start == ExecuteFofaQueryStart(query, size, FofaDefaultPage) IN
  /\ fofaCalls' = Append(fofaCalls, [query |-> query, size |-> size,
                                      valid |-> validateQuery(query)])
  /\ IF start.threw
       THEN /\ clientErrors' = Append(clientErrors, start.err)
            /\ fofaRequests' = fofaRequests
            /\ result' = OrchestratorCatch(start.err)
            /\ events' = events \o before \o <<"fofa_call", "return">>
            /\ pc' = "done"
       ELSE /\ clientErrors' = clientErrors
            /\ fofaRequests' = Append(fofaRequests, start.value[1])
            /\ result' = result
            /\ events' = events \o before \o <<"fofa_call", "fofa_request">>
            /\ pc' = "awaitFofa"

\* Orchestrator.processUserQuery up to the await of axios.post inside
\* convertTextToFofaQuery
ProcessUserQuery(text, size) ==
  /\ pc = "idle"
  /\ mode' = "nl"
  /\ userInput' = text
  /\ sizeArg' = size
  /\ llmRequests' = Append(llmRequests, buildRequest(apiUrl, buildPrompt(text)))
  /\ events' = Append(events, "llm_request")
  /\ pc' = "awaitLLM"
  /\ UNCHANGED <<llmVersion, apiUrl, llmReplies, llmResponse, fofaCalls, fofaRequests,
                 fofaReplies, fofaResults, clientErrors, result>>

\* processUserQuery from the answer of the completion service to the await
\* of axios.get inside executeFofaQuery, or to its return
LlmReply(reply) ==
  /\ pc = "awaitLLM"
  /\ llmReplies' = Append(llmReplies, reply)
  /\ \E converted \in {ConvertTextFinish(reply)} :
     IF converted.threw
       THEN /\ clientErrors' = Append(clientErrors, converted.err)
            /\ result' = OrchestratorCatch(converted.err)
            /\ events' = events \o <<"llm_reply", "return">>
            /\ pc' = "done"
            /\ UNCHANGED <<llmResponse, fofaCalls, fofaRequests>>
       ELSE /\ llmResponse' = <<converted.value>>
            /\ IF ~HasQuery(converted.value)
                 THEN /\ result' = FailureResult(MSG_NOT_UNDERSTOOD \o userInput \o "\"\n"
                                       \o TemplateText(converted.value.explanation))
                      /\ events' = events \o <<"llm_reply", "return">>
                      /\ pc' = "done"
                      /\ UNCHANGED <<fofaCalls, fofaRequests, clientErrors>>
                 ELSE CallExecuteFofaQuery(converted.value.fofa_query,
                                           EffectiveSize(sizeArg), <<"llm_reply">>)
  /\ UNCHANGED <<llmVersion, apiUrl, mode, userInput, sizeArg, llmRequests, fofaReplies,
                 fofaResults>>

\* mutation: the query trimmed before it is handed to the search client
ExecuteDirectQueryTrimmed(fofaQuery, size) ==
  /\ pc = "idle"
  /\ mode' = "direct"
  /\ userInput' = fofaQuery
  /\ sizeArg' = size
  /\ CallExecuteFofaQuery(Str(Trim(fofaQuery)), EffectiveSize(size), << >>)
  /\ UNCHANGED <<llmVersion, apiUrl, llmRequests, llmReplies, llmResponse, fofaReplies,
                 fofaResults>>

\* Orchestrator.executeDirectQuery up to the await of axios.get, or to its
\* return when the validation fails
ExecuteDirectQuery(fofaQuery, size) ==
  /\ pc = "idle"
  /\ mode' = "direct"
  /\ userInput' = fofaQuery
  /\ sizeArg' = size
  /\ CallExecuteFofaQuery(Str(fofaQuery), EffectiveSize(size), << >>)
  /\ UNCHANGED <<llmVersion, apiUrl, llmRequests, llmReplies, llmResponse, fofaReplies,
                 fofaResults>>

\* mutation: a failed search request is sent once more
FofaReplyWithRetry(reply) ==
  /\ pc = "awaitFofa"
  /\ fofaReplies' = Append(fofaReplies, reply)
  /\ IF ~reply.ok /\ Len(fofaRequests) < 2
       THEN /\ fofaRequests' = Append(fofaRequests, fofaRequests[1])
            /\ events' = events \o <<"fofa_reply", "fofa_request">>
            /\ UNCHANGED <<pc, clientErrors, fofaResults, result>>
       ELSE /\ LET out == ExecuteFofaQueryFinish(reply) IN
               /\ clientErrors' = IF out.threw THEN Append(clientErrors, out.err)
                                               ELSE clientErrors
               /\ fofaResults' = IF out.threw THEN fofaResults
                                              ELSE Append(fofaResults, out.value)
               /\ result' = IF mode = "nl"
                              THEN AfterFofaQuery(out, llmResponse[1].fofa_query,
                                                  llmResponse[1].explanation)
                              ELSE AfterFofaQuery(out, Str(userInput), Str(MSG_DIRECT_QUERY))
            /\ events' = events \o <<"fofa_reply", "return">>
            /\ pc' = "done"
            /\ UNCHANGED fofaRequests
  /\ UNCHANGED <<llmVersion, apiUrl, mode, userInput, sizeArg, llmRequests, llmReplies,
                 llmResponse, fofaCalls>>

\* both methods from the answer of the search service to their return
FofaReply(reply) ==
  /\ pc = "awaitFofa"
  /\ fofaReplies' = Append(fofaReplies, reply)
  /\ LET out == ExecuteFofaQueryFinish(reply) IN
     /\ clientErrors' = IF out.threw THEN Append(clientErrors, out.err) ELSE clientErrors
     /\ fofaResults' = IF out.threw THEN fofaResults ELSE Append(fofaResults, out.value)
     /\ result' = IF mode = "nl"
                    THEN AfterFofaQuery(out, llmResponse[1].fofa_query,
                                        llmResponse[1].explanation)
                    ELSE AfterFofaQuery(out, Str(userInput), Str(MSG_DIRECT_QUERY))
  /\ events' = events \o <<"fofa_reply", "return">>
  /\ pc' = "done"
  /\ UNCHANGED <<llmVersion, apiUrl, mode, userInput, sizeArg, llmRequests, llmReplies,
                 llmResponse, fofaCalls, fofaRequests>>

\* a caller starts an invocation, or a remote service answers the request
\* the invocation is waiting on
Next ==
  \/ /\ pc = "idle" /\ \E text \in UserInputs, size \in SizeArgs :
                          ProcessUserQuery(text, size)
     /\ UNCHANGED <<answerVars, procVars, invocations>>
  \/ /\ pc = "awaitLLM" /\ \E reply \in LlmReplies : LlmReply(reply)
     /\ UNCHANGED <<answerVars, procVars, invocations>>
  \/ /\ pc = "idle" /\ \E fofaQuery \in QueryStrings, size \in SizeArgs :
                          ExecuteDirectQuery(fofaQuery, size)
     /\ UNCHANGED <<answerVars, procVars, invocations>>
  \/ /\ pc = "awaitFofa" /\ \E reply \in FofaReplies : FofaReply(reply)
     /\ UNCHANGED <<answerVars, procVars, invocations>>

Spec == Init /\ [][Next]_vars

\* Every axios call is given a timeout (300000 ms at llmService.ts:30, 30000
\* ms at resultPresenter.ts:223), so a request that is waited on ends: with
\* a response, with an error, or with ECONNABORTED when the timeout fires.
\* The continuation after the await then runs.
LlmCallEnds ==
  /\ pc = "awaitLLM" /\ \E reply \in LlmReplies : LlmReply(reply)
  /\ UNCHANGED <<answerVars, procVars, invocations>>

FofaCallEnds ==
  /\ pc = "awaitFofa" /\ \E reply \in FofaReplies : FofaReply(reply)
  /\ UNCHANGED <<answerVars, procVars, invocations>>

Fairness == WF_vars(LlmCallEnds) /\ WF_vars(FofaCallEnds)

SpecFair == Spec /\ Fairness

(***************************************************************************)
(* The extraction on its own: the completion service answers with the      *)
(* serialized object {fofa_query, explanation}, wrapped one way or         *)
(* another, and convertTextToFofaQuery goes on from the response.          *)
(***************************************************************************)
InitExtract ==
  /\ apiUrl = "https://api.openai.com/v1/chat/completions"
  /\ llmVersion = CurrentVersion
  /\ pc = "idle"
  /\ mode = "none"
  /\ userInput = ""
  /\ sizeArg = NoSize
  /\ llmRequests = << >>
  /\ llmReplies = << >>
  /\ llmResponse = << >>
  /\ fofaCalls = << >>
  /\ fofaRequests = << >>
  /\ fofaReplies = << >>
  /\ fofaResults = << >>
  /\ clientErrors = << >>
  /\ events = << >>
  /\ result = NoResult
  /\ answerQuery \in AnswerValues
  /\ answerExplanation \in AnswerTexts
  /\ answerWrapping \in Wrappings
  /\ answerPc = "drawn"
  /\ rawText = ""
  /\ extracted = << >>
  /\ NoProcess
  /\ NoCalls

\* the model's answer arrives as the message content of the response
ModelAnswers ==
  /\ answerPc = "drawn"
  /\ rawText' = Wrap(answerWrapping,
                     JsonAnswer(JsonValue(answerQuery), JsonString(answerExplanation)))
  /\ answerPc' = "answered"
  /\ UNCHANGED <<answerQuery, answerExplanation, answerWrapping, extracted>>
  /\ UNCHANGED <<pipelineVars, procVars, invocations>>

\* convertTextToFofaQuery from that response on (lines 33-78)
ExtractAnswer ==
  /\ answerPc = "answered"
  /\ extracted' = <<ConvertTextFinish([ok |-> TRUE, data |-> ChoicesBody(rawText),
                                       err |-> NoError])>>
  /\ answerPc' = "extracted"
  /\ UNCHANGED <<answerQuery, answerExplanation, answerWrapping, rawText>>
  /\ UNCHANGED <<pipelineVars, procVars, invocations>>

NextExtract ==
  \/ ModelAnswers
  \/ ExtractAnswer

SpecExtract == InitExtract /\ [][NextExtract]_vars

TypeOK ==
  /\ pc \in {"idle", "awaitLLM", "awaitFofa", "done"}
  /\ mode \in {"none", "nl", "direct"}
  /\ result.kind \in {"none", "returned", "raised"}
  /\ Len(llmResponse) <= 1

(***************************************************************************)
(* The two processes.  The CLI (src/unnamed/part_003, index.ts) reads its  *)
(* command line, checks the environment, runs one invocation of the        *)
(* orchestrator and exits.  The MCP server (src/src/mcp-server.ts) is      *)
(* constructed, connects its transport and answers tool calls.             *)
(***************************************************************************)
\* a finding of validateEnvironment or initializeServices: variables missing
Detection(during, e) == [during |-> during, missing |-> EnvVars \ e]

\* command lines: help asked for, --direct given, number of positionals and
\* the positionals joined by " "
CommandLine(help, direct, words, query) ==
  [help |-> help, direct |-> direct, words |-> words, query |-> query]

CommandLines ==
  {CommandLine(TRUE, FALSE, 1, "nginx in US"),
   CommandLine(FALSE, FALSE, 0, ""),
   CommandLine(FALSE, TRUE, 0, ""),
   CommandLine(FALSE, FALSE, 1, " "),
   CommandLine(FALSE, FALSE, 3, "nginx in US"),
   CommandLine(FALSE, FALSE, 1, "port > 80"),
   CommandLine(FALSE, TRUE, 1, "port=80"),
   CommandLine(FALSE, TRUE, 1, "(a")}

\* parseArguments: "help", "direct", "natural", or "exit" for process.exit(1)
parseArguments(cmd) ==
  IF cmd.help \/ (cmd.words = 0 /\ ~cmd.direct) THEN "help"
  ELSE IF Trim(cmd.query) = "" THEN "exit"
  ELSE IF cmd.direct THEN "direct"
  ELSE "natural"

\* process.exit(result.success ? 0 : 1), and the catch of main
ExitState(r) == IF r.kind = "returned" /\ r.success THEN "exit0" ELSE "exit1"

\* main of the CLI up to the first await that waits on a remote service
CliMain(cmd) ==
  /\ proc = "cli"
  /\ procState = "new"
  /\ LET parsed == parseArguments(cmd) IN
     IF parsed \in {"help", "exit"}
       THEN /\ procState' = IF parsed = "help" THEN "exit0" ELSE "exit1"
            /\ UNCHANGED <<pipelineVars, detections>>
     ELSE IF EnvVars \ env # {}
       THEN /\ detections' = Append(detections, Detection("startup", env))
            /\ procState' = "exit1"
            /\ UNCHANGED pipelineVars
     ELSE /\ IF parsed = "direct"
               THEN ExecuteDirectQuery(cmd.query, NoSize)
               ELSE ProcessUserQuery(cmd.query, NoSize)
          /\ procState' = IF pc' = "done" THEN ExitState(result') ELSE "running"
          /\ UNCHANGED detections
  /\ UNCHANGED <<proc, env, llmService, fofaService, toolCalls, serviceBuilds,
                 toolRequest,
                 toolResponse, answerVars, invocations>>

\* main of the CLI from the answer of the completion service on
CliLlmReply(reply) ==
  /\ proc = "cli"
  /\ procState = "running"
  /\ LlmReply(reply)
  /\ procState' = IF pc' = "done" THEN ExitState(result') ELSE "running"
  /\ UNCHANGED <<proc, env, llmService, fofaService, toolCalls, serviceBuilds,
                 toolRequest,
                 toolResponse, detections, answerVars, invocations>>

\* main of the CLI from the answer of the search service to process.exit
CliFofaReply(reply) ==
  /\ proc = "cli"
  /\ procState = "running"
  /\ FofaReply(reply)
  /\ procState' = ExitState(result')
  /\ UNCHANGED <<proc, env, llmService, fofaService, toolCalls, serviceBuilds,
                 toolRequest,
                 toolResponse, detections, answerVars, invocations>>

\* '服务初始化失败，请检查环境变量配置'
MSG_INIT_FAILED == "service initialization failed, check the environment variables"
\* `缺少必需参数: `
MSG_MISSING_ARG == "missing required argument: "
\* `未知的工具: `
MSG_UNKNOWN_TOOL == "unknown tool: "
\* `❌ 错误: `
MCP_ERROR == "[x] error: "
\* `❌ 查询失败: `
MCP_QUERY_FAILED == "[x] query failed: "
\* `❌ 无法理解查询请求: "`
MCP_NOT_UNDERSTOOD == "[x] cannot understand the query request: \""

\* longest list formatQueryResult prints in full
DisplayLimit == 10

\* the forEach of formatQueryResult over displayResults from item k on
RECURSIVE FormatItems(_, _)
FormatItems(results, k) ==
  IF k > Len(results) \/ k > DisplayLimit THEN ""
  ELSE ToString(k) \o ". IP: " \o TemplateText(results[k].ip) \o ":"
         \o TemplateText(results[k].port) \o "\n"
         \o "   title: " \o (IF Truthy(results[k].title)
                               THEN TemplateText(results[k].title) ELSE "N/A") \o "\n"
         \o "   host: " \o (IF Truthy(results[k].host)
                              THEN TemplateText(results[k].host) ELSE "N/A") \o "\n\n"
         \o FormatItems(results, k + 1)

\* NL2FOFAMCPServer.formatQueryResult for { success: true, results, query,
\* explanation, count: results.length }
formatQueryResult(results, query, explanation) ==
  LET head == "FOFA query results\n"
                \o "query: " \o TemplateText(query) \o "\n"
                \o "explanation: " \o TemplateText(explanation) \o "\n"
                \o "count: " \o ToString(Len(results)) \o "\n\n"
  IN  IF Len(results) = 0
        THEN head \o "no matching results"
        ELSE head \o "results (first 10):\n\n" \o FormatItems(results, 1)
               \o (IF Len(results) > DisplayLimit
                     THEN "... " \o ToString(Len(results) - DisplayLimit) \o " more results\n"
                     ELSE "")

\* a tool call: the tool's name, its query or fofaQuery argument (undefined
\* when left out) and its size argument (NoSize when left out)
ToolCall(name, text, size) ==
  [name |-> name, args |-> TRUE, text |-> text, size |-> size]

\* a tool call whose params hold no arguments at all
ToolCallNoArguments(name) ==
  [name |-> name, args |-> FALSE, text |-> Undefined, size |-> NoSize]

\* the tool calls a client sends: both tools with and without size, with
\* sizes outside the declared range, without the required argument, with an
\* empty one, with a query that is not valid or not a string; a tool that
\* does not exist; calls without arguments
ToolCalls ==
  {ToolCall("natural_language_query", Str("nginx in US"), NoSize),
   ToolCall("natural_language_query", Str("nginx in US"), 10),
   ToolCall("natural_language_query", Str("port > 80"), 0),
   ToolCall("natural_language_query", Undefined, NoSize),
   ToolCall("natural_language_query", Str(""), 10),
   ToolCall("direct_fofa_query", Str("port=80"), NoSize),
   ToolCall("direct_fofa_query", Str("port=80"), 10),
   ToolCall("direct_fofa_query", Str("port=80"), 0),
   ToolCall("direct_fofa_query", Str("port=80"), 5000),
   ToolCall("direct_fofa_query", Str("(a"), NoSize),
   ToolCall("direct_fofa_query", Num("80"), NoSize),
   ToolCall("direct_fofa_query", Undefined, 10),
   ToolCall("direct_fofa_query", Str(""), NoSize),
   ToolCall("list_assets", Str("port=80"), NoSize),
   ToolCallNoArguments("natural_language_query"),
   ToolCallNoArguments("list_assets")}

\* the name of the argument a tool requires
RequiredArg(name) == IF name = "natural_language_query" THEN "query" ELSE "fofaQuery"

\* NL2FOFAMCPServer.initializeServices: true iff no variable is missing
initializeServices(e) == EnvVars \ e = {}

\* mutation: the cases of the switch call the handlers without the tests
\* of lines 165 and 173
CallToolStartUnchecked(req, ready, e, url) ==
  LET ended(text, errs, calls, evs) ==
        [response |-> <<text>>, pc |-> "idle", llmRequests |-> << >>,
         fofaCalls |-> calls, fofaRequests |-> << >>, clientErrors |-> errs,
         events |-> evs \o <<"return">>]
      waiting(at, llmReqs, calls, fofaReqs, evs) ==
        [response |-> << >>, pc |-> at, llmRequests |-> llmReqs,
         fofaCalls |-> calls, fofaRequests |-> fofaReqs, clientErrors |-> << >>,
         events |-> evs]
  IN
  IF ~ready /\ ~initializeServices(e)
    THEN ended(MCP_ERROR \o MSG_INIT_FAILED, << >>, << >>, << >>)
  ELSE IF req.name \notin {"natural_language_query", "direct_fofa_query"}
    THEN ended(MCP_ERROR \o MSG_UNKNOWN_TOOL \o req.name, << >>, << >>, << >>)
  ELSE IF ~req.args
    THEN ended(MCP_ERROR \o "Cannot read properties of undefined (reading '"
                 \o RequiredArg(req.name) \o "')", << >>, << >>, << >>)
  ELSE IF req.name = "natural_language_query"
    THEN waiting("awaitLLM", <<buildRequest(url, buildPrompt(TemplateText(req.text)))>>,
                 << >>, << >>, <<"llm_request">>)
  ELSE LET size  == EffectiveSize(req.size)
           call  == [query |-> req.text, size |-> size, valid |-> validateQuery(req.text)]
           start == ExecuteFofaQueryStart(req.text, size, FofaDefaultPage)
       IN  IF start.threw
             THEN ended(MCP_QUERY_FAILED \o ErrorMessage(start.err), <<start.err>>,
                        <<call>>, <<"fofa_call">>)
             ELSE waiting("awaitFofa", << >>, <<call>>, <<start.value[1]>>,
                          <<"fofa_call", "fofa_request">>)

\* the CallTool handler up to its first await on a remote service; ready says
\* that both services are set.  response is << >> while the call is waiting.
CallToolStart(req, ready, e, url) ==
  LET ended(text, errs, calls, evs) ==
        [response |-> <<text>>, pc |-> "idle", llmRequests |-> << >>,
         fofaCalls |-> calls, fofaRequests |-> << >>, clientErrors |-> errs,
         events |-> evs \o <<"return">>]
      waiting(at, llmReqs, calls, fofaReqs, evs) ==
        [response |-> << >>, pc |-> at, llmRequests |-> llmReqs,
         fofaCalls |-> calls, fofaRequests |-> fofaReqs, clientErrors |-> << >>,
         events |-> evs]
  IN
  IF ~ready /\ ~initializeServices(e)
    THEN ended(MCP_ERROR \o MSG_INIT_FAILED, << >>, << >>, << >>)
  ELSE IF req.name \notin {"natural_language_query", "direct_fofa_query"}
    THEN ended(MCP_ERROR \o MSG_UNKNOWN_TOOL \o req.name, << >>, << >>, << >>)
  ELSE IF ~req.args
    THEN ended(MCP_ERROR \o "Cannot read properties of undefined (reading '"
                 \o RequiredArg(req.name) \o "')", << >>, << >>, << >>)
  ELSE IF ~Truthy(req.text)
    THEN ended(MCP_ERROR \o MSG_MISSING_ARG \o RequiredArg(req.name), << >>, << >>, << >>)
  ELSE IF req.name = "natural_language_query"
    THEN waiting("awaitLLM", <<buildRequest(url, buildPrompt(TemplateText(req.text)))>>,
                 << >>, << >>, <<"llm_request">>)
  ELSE LET size  == EffectiveSize(req.size)
           call  == [query |-> req.text, size |-> size, valid |-> validateQuery(req.text)]
           start == ExecuteFofaQueryStart(req.text, size, FofaDefaultPage)
       IN  IF start.threw
             THEN ended(MCP_QUERY_FAILED \o ErrorMessage(start.err), <<start.err>>,
                        <<call>>, <<"fofa_call">>)
             ELSE waiting("awaitFofa", << >>, <<call>>, <<start.value[1]>>,
                          <<"fofa_call", "fofa_request">>)

\* main of the MCP server: the constructor (setupToolHandlers,
\* setupErrorHandling) and start (server.connect)
McpStart ==
  /\ proc = "mcp"
  /\ procState = "new"
  /\ procState' = "serving"
  /\ UNCHANGED <<proc, env, llmService, fofaService, toolCalls, serviceBuilds,
                 toolRequest,
                 toolResponse, detections, pipelineVars, answerVars, invocations>>

\* mutation: the handler calls initializeServices on every tool call,
\* without the test of lines 156-157
McpCallToolRebuilds(req) ==
  /\ proc = "mcp"
  /\ procState = "serving"
  /\ pc = "idle"
  /\ toolCalls < MaxToolCalls
  /\ LET ready == FALSE IN
     \E go \in {CallToolStart(req, ready, env, apiUrl)} :
         /\ toolCalls' = toolCalls + 1
         /\ serviceBuilds' = IF ~ready /\ initializeServices(env)
                               THEN serviceBuilds + 1 ELSE serviceBuilds
         /\ toolRequest' = <<req>>
         /\ detections' = IF ~ready /\ ~initializeServices(env)
                            THEN Append(detections, Detection("request", env))
                            ELSE detections
         /\ llmService' = (llmService \/ (~ready /\ initializeServices(env)))
         /\ fofaService' = (fofaService \/ (~ready /\ initializeServices(env)))
         /\ toolResponse' = go.response
         /\ pc' = go.pc
         /\ mode' = IF req.name = "natural_language_query" THEN "nl"
                    ELSE IF req.name = "direct_fofa_query" THEN "direct"
                    ELSE "none"
         /\ userInput' = TemplateText(req.text)
         /\ sizeArg' = req.size
         /\ llmRequests' = go.llmRequests
         /\ fofaCalls' = go.fofaCalls
         /\ fofaRequests' = go.fofaRequests
         /\ clientErrors' = go.clientErrors
         /\ events' = go.events
         /\ llmReplies' = << >>
         /\ llmResponse' = << >>
         /\ fofaReplies' = << >>
         /\ fofaResults' = << >>
  /\ UNCHANGED <<proc, procState, env, llmVersion, apiUrl, result, answerVars,
                 invocations>>

\* the CallTool handler from the request to its first await, or to its
\* return
McpCallTool(req) ==
  /\ proc = "mcp"
  /\ procState = "serving"
  /\ pc = "idle"
  /\ toolCalls < MaxToolCalls
  /\ LET ready == llmService /\ fofaService IN
     \E go \in {CallToolStart(req, ready, env, apiUrl)} :
         /\ toolCalls' = toolCalls + 1
         /\ serviceBuilds' = IF ~ready /\ initializeServices(env)
                               THEN serviceBuilds + 1 ELSE serviceBuilds
         /\ toolRequest' = <<req>>
         /\ detections' = IF ~ready /\ ~initializeServices(env)
                            THEN Append(detections, Detection("request", env))
                            ELSE detections
         /\ llmService' = (llmService \/ (~ready /\ initializeServices(env)))
         /\ fofaService' = (fofaService \/ (~ready /\ initializeServices(env)))
         /\ toolResponse' = go.response
         /\ pc' = go.pc
         /\ mode' = IF req.name = "natural_language_query" THEN "nl"
                    ELSE IF req.name = "direct_fofa_query" THEN "direct"
                    ELSE "none"
         /\ userInput' = TemplateText(req.text)
         /\ sizeArg' = req.size
         /\ llmRequests' = go.llmRequests
         /\ fofaCalls' = go.fofaCalls
         /\ fofaRequests' = go.fofaRequests
         /\ clientErrors' = go.clientErrors
         /\ events' = go.events
         /\ llmReplies' = << >>
         /\ llmResponse' = << >>
         /\ fofaReplies' = << >>
         /\ fofaResults' = << >>
  /\ UNCHANGED <<proc, procState, env, llmVersion, apiUrl, result, answerVars,
                 invocations>>

\* handleNaturalLanguageQuery from the answer of the completion service to
\* the await of axios.get, or to the handler's return
McpLlmReply(reply) ==
  /\ proc = "mcp"
  /\ pc = "awaitLLM"
  /\ llmReplies' = Append(llmReplies, reply)
  /\ \E converted \in {ConvertTextFinish(reply)} :
     IF converted.threw
       THEN /\ clientErrors' = Append(clientErrors, converted.err)
            /\ toolResponse' = <<MCP_QUERY_FAILED \o ErrorMessage(converted.err)>>
            /\ events' = events \o <<"llm_reply", "return">>
            /\ pc' = "idle"
            /\ UNCHANGED <<llmResponse, fofaCalls, fofaRequests>>
     ELSE IF ~HasQuery(converted.value)
       THEN /\ llmResponse' = <<converted.value>>
            /\ toolResponse' = <<MCP_NOT_UNDERSTOOD \o userInput \o "\"\n"
                                   \o TemplateText(converted.value.explanation)>>
            /\ events' = events \o <<"llm_reply", "return">>
            /\ pc' = "idle"
            /\ UNCHANGED <<fofaCalls, fofaRequests, clientErrors>>
     ELSE LET query == converted.value.fofa_query
              size  == EffectiveSize(sizeArg)
              start == ExecuteFofaQueryStart(query, size, FofaDefaultPage)
          IN  /\ llmResponse' = <<converted.value>>
              /\ fofaCalls' = Append(fofaCalls, [query |-> query, size |-> size,
                                                  valid |-> validateQuery(query)])
              /\ IF start.threw
                   THEN /\ clientErrors' = Append(clientErrors, start.err)
                        /\ toolResponse' = <<MCP_QUERY_FAILED \o ErrorMessage(start.err)>>
                        /\ events' = events \o <<"llm_reply", "fofa_call", "return">>
                        /\ pc' = "idle"
                        /\ UNCHANGED fofaRequests
                   ELSE /\ fofaRequests' = Append(fofaRequests, start.value[1])
                        /\ events' = events \o <<"llm_reply", "fofa_call", "fofa_request">>
                        /\ pc' = "awaitFofa"
                        /\ UNCHANGED <<clientErrors, toolResponse>>
  /\ UNCHANGED <<llmVersion, apiUrl, mode, userInput, sizeArg, llmRequests, fofaReplies,
                 fofaResults, result, proc, procState, env, llmService,
                 fofaService, toolCalls, serviceBuilds, toolRequest, detections,
                 answerVars, invocations>>

\* both tool handlers from the answer of the search service to their return
McpFofaReply(reply) ==
  /\ proc = "mcp"
  /\ pc = "awaitFofa"
  /\ fofaReplies' = Append(fofaReplies, reply)
  /\ LET out == ExecuteFofaQueryFinish(reply) IN
     IF out.threw
       THEN /\ clientErrors' = Append(clientErrors, out.err)
            /\ toolResponse' = <<MCP_QUERY_FAILED \o ErrorMessage(out.err)>>
            /\ UNCHANGED fofaResults
       ELSE /\ fofaResults' = Append(fofaResults, out.value)
            /\ toolResponse' =
                 IF mode = "nl"
                   THEN <<formatQueryResult(out.value, llmResponse[1].fofa_query,
                                            llmResponse[1].explanation)>>
                   ELSE <<formatQueryResult(out.value, toolRequest[1].text,
                                            Str(MSG_DIRECT_QUERY))>>
            /\ UNCHANGED clientErrors
  /\ events' = events \o <<"fofa_reply", "return">>
  /\ pc' = "idle"
  /\ UNCHANGED <<llmVersion, apiUrl, mode, userInput, sizeArg, llmRequests, llmReplies,
                 llmResponse, fofaCalls, fofaRequests, result, proc, procState,
                 env, llmService, fofaService, toolCalls, serviceBuilds, toolRequest,
                 detections, answerVars, invocations>>

\* a process is started with some of the required variables set
InitProcess ==
  /\ apiUrl \in ApiUrls
  /\ llmVersion = CurrentVersion
  /\ pc = "idle"
  /\ mode = "none"
  /\ userInput = ""
  /\ sizeArg = NoSize
  /\ llmRequests = << >>
  /\ llmReplies = << >>
  /\ llmResponse = << >>
  /\ fofaCalls = << >>
  /\ fofaRequests = << >>
  /\ fofaReplies = << >>
  /\ fofaResults = << >>
  /\ clientErrors = << >>
  /\ events = << >>
  /\ result = NoResult
  /\ answerQuery = Null
  /\ answerExplanation = ""
  /\ answerWrapping = "bare"
  /\ answerPc = "drawn"
  /\ rawText = ""
  /\ extracted = << >>
  /\ proc \in {"cli", "mcp"}
  /\ procState = "new"
  /\ env \in SUBSET EnvVars
  /\ llmService = FALSE
  /\ fofaService = FALSE
  /\ toolCalls = 0
  /\ serviceBuilds = 0
  /\ toolRequest = << >>
  /\ toolResponse = << >>
  /\ detections = << >>
  /\ NoCalls

NextProcess ==
  \/ proc = "cli" /\ procState = "new" /\ \E cmd \in CommandLines : CliMain(cmd)
  \/ proc = "cli" /\ pc = "awaitLLM" /\ \E reply \in LlmReplies : CliLlmReply(reply)
  \/ proc = "cli" /\ pc = "awaitFofa" /\ \E reply \in FofaReplies : CliFofaReply(reply)
  \/ McpStart
  \/ proc = "mcp" /\ pc = "idle" /\ \E req \in ToolCalls : McpCallTool(req)
  \/ proc = "mcp" /\ pc = "awaitLLM" /\ \E reply \in LlmReplies : McpLlmReply(reply)
  \/ proc = "mcp" /\ pc = "awaitFofa" /\ \E reply \in FofaReplies : McpFofaReply(reply)

SpecProcess == InitProcess /\ [][NextProcess]_vars

(***************************************************************************)
(* Invocations in flight at once.  Each call of an async method has its    *)
(* own closure (its arguments and the llmResponse it holds); what the      *)
(* calls share is the object: the Orchestrator's two services, or the MCP  *)
(* server's llmService and fofaService fields.  The steps below are the    *)
(* stretches of a method between two awaits, as functions of the closure.  *)
(***************************************************************************)
\* the invocation has returned out
Ended(call, out) == [call EXCEPT !.pc = "done", !.out = <<out>>]

\* the invocation waits on axios.get
Requested(call, request) ==
  [call EXCEPT !.pc = "awaitFofa", !.fofaRequests = Append(@, request)]

\* `await this.fofaService.executeFofaQuery(query, resultSize)` inside the
\* try block of an Orchestrator method, up to the await of axios.get
OrchestratorSearch(call, query, size) ==
  LET go(start) == IF start.threw
                     THEN Ended(call, OrchestratorCatch(start.err))
                     ELSE Requested(call, start.value[1])
  IN  go(ExecuteFofaQueryStart(query, size, FofaDefaultPage))

\* processUserQuery(req.text, req.size) or executeDirectQuery(req.text,
\* req.size) up to the first await on a remote service
InvokeOrchestrator(req, url) ==
  IF req.name = "natural_language_query"
    THEN [NoCall EXCEPT !.pc = "awaitLLM", !.mode = "nl", !.input = req.text,
                        !.size = req.size,
                        !.llmRequests = <<buildRequest(url, buildPrompt(req.text.v))>>]
    ELSE OrchestratorSearch([NoCall EXCEPT !.mode = "direct", !.input = req.text,
                                           !.size = req.size],
                            req.text, EffectiveSize(req.size))

\* processUserQuery from the answer of the completion service on
OrchestratorResumeLlm(call, reply) ==
  LET heard(response) == [call EXCEPT !.llmReplies = Append(@, reply),
                                      !.llmResponse = response]
      go(converted) ==
        IF converted.threw
          THEN Ended(heard(<< >>), OrchestratorCatch(converted.err))
        ELSE IF ~HasQuery(converted.value)
          THEN Ended(heard(<<converted.value>>),
                     FailureResult(MSG_NOT_UNDERSTOOD \o call.input.v \o "\"\n"
                                     \o TemplateText(converted.value.explanation)))
        ELSE OrchestratorSearch(heard(<<converted.value>>),
                                converted.value.fofa_query, EffectiveSize(call.size))
  IN  go(ConvertTextFinish(reply))

\* both Orchestrator methods from the answer of the search service on
OrchestratorResumeFofa(call, reply) ==
  LET go(out) ==
        Ended([call EXCEPT !.fofaReplies = Append(@, reply)],
              IF call.mode = "nl"
                THEN AfterFofaQuery(out, call.llmResponse[1].fofa_query,
                                    call.llmResponse[1].explanation)
                ELSE AfterFofaQuery(out, call.input, Str(MSG_DIRECT_QUERY)))
  IN  go(ExecuteFofaQueryFinish(reply))

\* the CallTool handler up to its first await, or to its return
InvokeTool(req, ready, e, url) ==
  LET go(start) ==
        [NoCall EXCEPT !.pc = IF start.pc = "idle" THEN "done" ELSE start.pc,
                       !.mode = IF req.name = "natural_language_query" THEN "nl"
                                ELSE IF req.name = "direct_fofa_query" THEN "direct"
                                ELSE "none",
                       !.input = req.text,
                       !.size = req.size,
                       !.llmRequests = start.llmRequests,
                       !.fofaRequests = start.fofaRequests,
                       !.out = start.response]
  IN  go(CallToolStart(req, ready, e, url))

\* `await this.fofaService!.executeFofaQuery(llmResponse.fofa_query, size)`
\* inside the try block of handleNaturalLanguageQuery
ToolSearch(call, query, size) ==
  LET go(start) == IF start.threw
                     THEN Ended(call, MCP_QUERY_FAILED \o ErrorMessage(start.err))
                     ELSE Requested(call, start.value[1])
  IN  go(ExecuteFofaQueryStart(query, size, FofaDefaultPage))

\* handleNaturalLanguageQuery from the answer of the completion service on
ToolResumeLlm(call, reply) ==
  LET heard(response) == [call EXCEPT !.llmReplies = Append(@, reply),
                                      !.llmResponse = response]
      go(converted) ==
        IF converted.threw
          THEN Ended(heard(<< >>), MCP_QUERY_FAILED \o ErrorMessage(converted.err))
        ELSE IF ~HasQuery(converted.value)
          THEN Ended(heard(<<converted.value>>),
                     MCP_NOT_UNDERSTOOD \o TemplateText(call.input) \o "\"\n"
                       \o TemplateText(converted.value.explanation))
        ELSE ToolSearch(heard(<<converted.value>>),
                        converted.value.fofa_query, EffectiveSize(call.size))
  IN  go(ConvertTextFinish(reply))

\* both tool handlers from the answer of the search service on
ToolResumeFofa(call, reply) ==
  LET go(out) ==
        Ended([call EXCEPT !.fofaReplies = Append(@, reply)],
              IF out.threw
                THEN MCP_QUERY_FAILED \o ErrorMessage(out.err)
              ELSE IF call.mode = "nl"
                THEN formatQueryResult(out.value, call.llmResponse[1].fofa_query,
                                       call.llmResponse[1].explanation)
              ELSE formatQueryResult(out.value, call.input, Str(MSG_DIRECT_QUERY)))
  IN  go(ExecuteFofaQueryFinish(reply))

\* the invocations callers start while others are in flight
ConcurrentRequests ==
  {ToolCall("natural_language_query", Str("nginx in US"), NoSize),
   ToolCall("natural_language_query", Str("port > 80"), 10),
   ToolCall("direct_fofa_query", Str("a=1"), 10)}

\* answers of the completion service to them: two different queries and a
\* failed request
ConcurrentLlmReplies ==
  {[ok |-> TRUE, data |-> ChoicesBody(JsonAnswer(JsonString(q), JsonString(e))),
    err |-> NoError] :
     q \in {"port=80", "a=\"b\""}, e \in {"y"}}
  \cup {[ok |-> FALSE, data |-> NoLlmData,
         err |-> AxiosError(NoStatus, "ECONNABORTED", "timeout of 300000ms exceeded")]}

\* answers of the search service to them
ConcurrentFofaReplies ==
  {[ok |-> TRUE, data |-> [error |-> Bool(FALSE), results |-> Rows(<<Row4, Row2>>)],
    err |-> NoError],
   [ok |-> FALSE, data |-> NoFofaData,
    err |-> AxiosError(401, "ERR_BAD_REQUEST", "Request failed with status code 401")]}

\* mutation: the llmResponse kept in a field of the shared object, where
\* the first invocation to get one leaves it for all
OwnCallSharedResponse(i) ==
  [invocations[i] EXCEPT !.llmResponse =
     IF invocations[1].llmResponse # << >> THEN invocations[1].llmResponse ELSE @]

\* what the continuation of invocation i resumes with: its own closure
OwnCall(i) == invocations[i]

\* one object, Orchestrator (proc = "none") or MCP server, with no
\* invocation started yet
InitConcurrent ==
  /\ apiUrl = "https://api.openai.com/v1/chat/completions"
  /\ llmVersion = CurrentVersion
  /\ pc = "idle"
  /\ mode = "none"
  /\ userInput = ""
  /\ sizeArg = NoSize
  /\ llmRequests = << >>
  /\ llmReplies = << >>
  /\ llmResponse = << >>
  /\ fofaCalls = << >>
  /\ fofaRequests = << >>
  /\ fofaReplies = << >>
  /\ fofaResults = << >>
  /\ clientErrors = << >>
  /\ events = << >>
  /\ result = NoResult
  /\ answerQuery = Null
  /\ answerExplanation = ""
  /\ answerWrapping = "bare"
  /\ answerPc = "drawn"
  /\ rawText = ""
  /\ extracted = << >>
  /\ proc \in {"none", "mcp"}
  /\ procState = IF proc = "mcp" THEN "serving" ELSE "new"
  /\ env \in {EnvVars, {"LLM_API_KEY"}}
  /\ proc = "none" => env = EnvVars
  /\ llmService = FALSE
  /\ fofaService = FALSE
  /\ toolCalls = 0
  /\ serviceBuilds = 0
  /\ toolRequest = << >>
  /\ toolResponse = << >>
  /\ detections = << >>
  /\ NoCalls

\* a caller starts invocation i on the Orchestrator
ConcurrentInvoke(i, req) ==
  /\ proc = "none"
  /\ invocations[i].pc = "idle"
  /\ invocations' = [invocations EXCEPT ![i] = InvokeOrchestrator(req, apiUrl)]
  /\ UNCHANGED <<pipelineVars, answerVars, procVars>>

\* a client sends tool call i to the MCP server
ConcurrentToolCall(i, req) ==
  /\ proc = "mcp"
  /\ invocations[i].pc = "idle"
  /\ invocations' = [invocations EXCEPT ![i] =
                       InvokeTool(req, llmService /\ fofaService, env, apiUrl)]
  /\ llmService' = (llmService \/ initializeServices(env))
  /\ fofaService' = (fofaService \/ initializeServices(env))
  /\ toolCalls' = toolCalls + 1
  /\ serviceBuilds' = IF ~(llmService /\ fofaService) /\ initializeServices(env)
                        THEN serviceBuilds + 1 ELSE serviceBuilds
  /\ detections' = IF ~(llmService /\ fofaService) /\ ~initializeServices(env)
                     THEN Append(detections, Detection("request", env))
                     ELSE detections
  /\ UNCHANGED <<pipelineVars, answerVars, proc, procState, env, toolRequest,
                 toolResponse>>

\* the completion service answers the request of invocation i
ConcurrentLlmReply(i, reply) ==
  /\ invocations[i].pc = "awaitLLM"
  /\ invocations' = [invocations EXCEPT ![i] =
                       IF proc = "mcp" THEN ToolResumeLlm(OwnCall(i), reply)
                                       ELSE OrchestratorResumeLlm(OwnCall(i), reply)]
  /\ UNCHANGED <<pipelineVars, answerVars, procVars>>

\* the search service answers the request of invocation i
ConcurrentFofaReply(i, reply) ==
  /\ invocations[i].pc = "awaitFofa"
  /\ invocations' = [invocations EXCEPT ![i] =
                       IF proc = "mcp" THEN ToolResumeFofa(OwnCall(i), reply)
                                       ELSE OrchestratorResumeFofa(OwnCall(i), reply)]
  /\ UNCHANGED <<pipelineVars, answerVars, procVars>>

NextConcurrent ==
  \/ proc = "none" /\ \E i \in Slots, req \in ConcurrentRequests : ConcurrentInvoke(i, req)
  \/ proc = "mcp" /\ \E i \in Slots, req \in ConcurrentRequests : ConcurrentToolCall(i, req)
  \/ \E i \in Slots, reply \in ConcurrentLlmReplies : ConcurrentLlmReply(i, reply)
  \/ \E i \in Slots, reply \in ConcurrentFofaReplies : ConcurrentFofaReply(i, reply)

SpecConcurrent == InitConcurrent /\ [][NextConcurrent]_vars

(***************************************************************************)
(* The request of convertTextToFofaQuery on its own, for each version of   *)
(* LLMService in the source.                                               *)
(***************************************************************************)
\* texts a user may type
PromptTexts == UserInputs \cup {"port=80", " ", "\"", "${userInput}", "a\nb"}

InitPrompt ==
  /\ apiUrl \in ApiUrls
  /\ llmVersion \in LlmVersions
  /\ pc = "idle"
  /\ mode = "none"
  /\ userInput = ""
  /\ sizeArg = NoSize
  /\ llmRequests = << >>
  /\ llmReplies = << >>
  /\ llmResponse = << >>
  /\ fofaCalls = << >>
  /\ fofaRequests = << >>
  /\ fofaReplies = << >>
  /\ fofaResults = << >>
  /\ clientErrors = << >>
  /\ events = << >>
  /\ result = NoResult
  /\ answerQuery = Null
  /\ answerExplanation = ""
  /\ answerWrapping = "bare"
  /\ answerPc = "drawn"
  /\ rawText = ""
  /\ extracted = << >>
  /\ NoProcess
  /\ NoCalls

\* convertTextToFofaQuery(text) up to the await of axios.post (lines 21-31)
ConvertTextStart(text) ==
  /\ pc = "idle"
  /\ mode' = "nl"
  /\ userInput' = text
  /\ llmRequests' = <<buildRequestOf(llmVersion, apiUrl,
                                     buildPromptOf(llmVersion, text))>>
  /\ events' = Append(events, "llm_request")
  /\ pc' = "awaitLLM"
  /\ UNCHANGED <<llmVersion, apiUrl, sizeArg, llmReplies, llmResponse, fofaCalls,
                 fofaRequests, fofaReplies, fofaResults, clientErrors, result>>
  /\ UNCHANGED <<answerVars, procVars, invocations>>

\* the request fails or is answered and the method ends; the service is
\* ready for the next text
ConvertTextEnd ==
  /\ pc = "awaitLLM"
  /\ pc' = "idle"
  /\ events' = Append(events, "llm_reply")
  /\ UNCHANGED <<llmVersion, apiUrl, mode, userInput, sizeArg, llmRequests,
                 llmReplies, llmResponse, fofaCalls, fofaRequests, fofaReplies,
                 fofaResults, clientErrors, result>>
  /\ UNCHANGED <<answerVars, procVars, invocations>>

NextPrompt ==
  \/ pc = "idle" /\ Len(events) < 2 * MaxPrompts /\ \E text \in PromptTexts : ConvertTextStart(text)
  \/ ConvertTextEnd

SpecPrompt == InitPrompt /\ [][NextPrompt]_vars

(***************************************************************************)
(* Properties.                                                             *)
(***************************************************************************)
\* number of occurrences of the character c in s
RECURSIVE Occurrences(_, _)
Occurrences(s, c) ==
  IF Len(s) = 0 THEN 0
  ELSE (IF Head(s) = c THEN 1 ELSE 0) + Occurrences(Tail(s), c)

IsBlank(s) == \A i \in Positions(s) : Char(s, i) \in WhiteSpace

\* the calls of executeFofaQuery whose query is a string
StringCalls == {i \in 1..Len(fofaCalls) : fofaCalls[i].query.t = "string"}

FailedLlmReply  == \E i \in 1..Len(llmReplies) : ~llmReplies[i].ok
FailedFofaReply == \E i \in 1..Len(fofaReplies) : ~fofaReplies[i].ok

\* index of the first occurrence of ev in events, 0 when there is none
EventIndex(ev) ==
  IF \E i \in 1..Len(events) : events[i] = ev
    THEN CHOOSE i \in 1..Len(events) :
           events[i] = ev /\ \A j \in 1..(i - 1) : events[j] # ev
    ELSE 0

\* C1: every ProcessResult returned by processUserQuery or executeDirectQuery
\* has an error field when success is false and none when success is true.
C1_ResultContract ==
  result.kind = "returned" =>
    /\ ~result.success => "error" \in result.fields
    /\ result.success => "error" \notin result.fields

C1_Witness ==
  /\ result.kind = "returned"
  /\ result.success
  /\ mode = "nl"
  /\ Len(result.data) = 2

\* C2: no invocation ends by raising; whatever error a client raised, the
\* invocation returns success=false with that error's message.
C2_ErrorsBecomeData ==
  /\ result.kind # "raised"
  /\ pc = "done" => result.kind = "returned"
  /\ \A i \in 1..Len(clientErrors) :
       /\ result.kind = "returned"
       /\ ~result.success
       /\ result.error = clientErrors[i].message

C2_Witness ==
  /\ result.kind = "returned"
  /\ Len(clientErrors) = 1
  /\ SubSeq(clientErrors[1].message, 1, 10) = "TypeError:"

\* C3: in natural-language mode, a translation result without a query (null,
\* missing or empty) gives success=false with an error that contains the
\* user's text and the explanation, and nothing is sent to the search service.
C3_NoQueryShortCircuit ==
  (mode = "nl" /\ llmResponse # << >>
     /\ llmResponse[1].fofa_query \in {Null, Undefined, Str("")}) =>
    /\ result.kind = "returned"
    /\ ~result.success
    /\ Includes(result.error, userInput)
    /\ Includes(result.error, TemplateText(llmResponse[1].explanation))
    /\ fofaCalls = << >>
    /\ fofaRequests = << >>

C3_Witness ==
  /\ mode = "nl"
  /\ userInput = "port > 80"
  /\ llmResponse = <<LLMResponse(Null, Str("ambiguous request"))>>
  /\ pc = "done"

\* C4: in processUserQuery the search request is issued only after the
\* completion call returned and extraction gave a present query; in
\* executeDirectQuery no completion request is issued and the search client
\* is called with exactly the caller's query.
C4_StrictOrder ==
  /\ (mode = "nl" /\ fofaRequests # << >>) =>
       /\ Len(llmReplies) = 1
       /\ llmReplies[1].ok
       /\ llmResponse # << >>
       /\ Truthy(llmResponse[1].fofa_query)
       /\ 0 < EventIndex("llm_reply")
       /\ EventIndex("llm_reply") < EventIndex("fofa_request")
  /\ mode = "direct" =>
       /\ llmRequests = << >>
       /\ EventIndex("llm_request") = 0
       /\ \A i \in 1..Len(fofaCalls) : fofaCalls[i].query = Str(userInput)

C4_Witness ==
  /\ mode = "direct"
  /\ userInput = " a "
  /\ Len(fofaCalls) = 1
  /\ Len(fofaRequests) = 1

\* C5: no retry: at most one request to each service in an invocation, and
\* once a remote call has failed no request is outstanding or sent again.
C5_NoRetry ==
  /\ Len(llmRequests) <= 1
  /\ Len(fofaRequests) <= 1
  /\ FailedLlmReply =>
       /\ Len(llmRequests) = Len(llmReplies)
       /\ fofaRequests = << >>
       /\ pc = "done"
  /\ FailedFofaReply =>
       /\ Len(fofaRequests) = Len(fofaReplies)
       /\ Len(llmRequests) = Len(llmReplies)
       /\ pc = "done"

C5_Witness ==
  /\ mode = "nl"
  /\ FailedFofaReply
  /\ fofaReplies[1].err.code = "ECONNABORTED"
  /\ pc = "done"

\* C6: a query string that validateQuery rejects makes executeFofaQuery fail
\* with the InvalidQuery error carrying that string, and no request is sent
\* to the search service.
C6_InvalidQueryNoRequest ==
  \A i \in StringCalls :
    fofaCalls[i].valid = "false" =>
      /\ fofaRequests = << >>
      /\ fofaReplies = << >>
      /\ clientErrors = <<NewError(MSG_INVALID_QUERY \o fofaCalls[i].query.v)>>
      /\ result = FailureResult(MSG_INVALID_QUERY \o fofaCalls[i].query.v)

C6_Witness ==
  /\ mode = "direct"
  /\ userInput = "(a"
  /\ Len(fofaCalls) = 1
  /\ fofaCalls[1].valid = "false"
  /\ pc = "done"

\* C7: validateQuery is false for every string that is blank, has an odd
\* number of double quotes, or has unequal numbers of ( and ).
C7_ValidateRejects ==
  \A i \in StringCalls :
    LET q == fofaCalls[i].query.v IN
    (\/ IsBlank(q)
     \/ Occurrences(q, "\"") % 2 = 1
     \/ Occurrences(q, "(") # Occurrences(q, ")")) => fofaCalls[i].valid = "false"

C7_Witness ==
  /\ Len(fofaCalls) = 1
  /\ fofaCalls[1].query = Str("a=\"")
  /\ fofaCalls[1].valid = "false"

\* C8: validateQuery never throws on a string, and is true exactly for the
\* strings that are not blank, have an even number of double quotes, equal
\* numbers of ( and ), and hold '=' or ':' or a word character.
C8_ValidateExact ==
  \A i \in StringCalls :
    LET q == fofaCalls[i].query.v IN
    /\ fofaCalls[i].valid \in {"true", "false"}
    /\ fofaCalls[i].valid = "true" <=>
         /\ ~IsBlank(q)
         /\ Occurrences(q, "\"") % 2 = 0
         /\ Occurrences(q, "(") = Occurrences(q, ")")
         /\ \E k \in Positions(q) : Char(q, k) \in {"=", ":"} \cup WordChars

C8_Witness ==
  /\ Len(fofaCalls) = 1
  /\ fofaCalls[1].query = Str("(a)")
  /\ fofaCalls[1].valid = "true"

\* the message expected for the error of a failed search request
C9_ExpectedMessage(err) ==
  IF err.status = 401 THEN MSG_AUTH_FAILED
  ELSE IF err.status = 403 THEN MSG_ACCESS_DENIED
  ELSE IF err.code = "ECONNABORTED" THEN MSG_TIMED_OUT
  ELSE MSG_QUERY_FAILED \o err.message

\* C9: a failed search request is reported as exactly one class, by first
\* match: 401, then 403, then timeout, else the generic failure wrapping the
\* underlying message; through the coordinator a 401 gives success=false
\* with the authentication message, which is not the generic one.
C9_Classification ==
  \A i \in 1..Len(fofaReplies) :
    ~fofaReplies[i].ok =>
      /\ Len(clientErrors) = 1
      /\ clientErrors[1].message = C9_ExpectedMessage(fofaReplies[i].err)
      /\ result.kind = "returned"
      /\ ~result.success
      /\ result.error = C9_ExpectedMessage(fofaReplies[i].err)
      /\ fofaReplies[i].err.status = 401 =>
           /\ result.error = MSG_AUTH_FAILED
           /\ ~StartsWith(result.error, MSG_QUERY_FAILED)

C9_Witness ==
  /\ mode = "nl"
  /\ Len(fofaReplies) = 1
  /\ ~fofaReplies[1].ok
  /\ fofaReplies[1].err.status = 401
  /\ fofaReplies[1].err.code = "ERR_BAD_REQUEST"
  /\ result.error = MSG_AUTH_FAILED

\* C10: a 2xx search response whose error flag is set makes executeFofaQuery
\* fail with the SearchApiError message itself, not with the generic
\* SearchFailed message that wraps an underlying message, and no records.
C10_ApiErrorOwnClass ==
  \A i \in 1..Len(fofaReplies) :
    (fofaReplies[i].ok /\ Truthy(fofaReplies[i].data.error)) =>
      /\ Len(clientErrors) = 1
      /\ clientErrors[1].message = MSG_API_ERROR
      /\ ~StartsWith(clientErrors[1].message, MSG_QUERY_FAILED)
      /\ ~result.success
      /\ result.data = << >>

\* the value an AssetRecord field must have for position i (from 0) of a row
C11_Field(row, i) ==
  IF i >= Len(row) \/ row[i + 1] \in {Null, Undefined, Str("")}
    THEN Str("")
    ELSE row[i + 1]

\* C11: for a search response without the error flag executeFofaQuery does
\* not fail and returns one record per raw row, in order, with ip, port,
\* title, host from positions 0..3 of the row and '' for a position that is
\* missing or empty, so that no field is null or undefined; no rows, or no
\* results list, give the empty list.
C11_RecordPerRow ==
  \A i \in 1..Len(fofaReplies) :
    (fofaReplies[i].ok /\ ~Truthy(fofaReplies[i].data.error)) =>
      LET raw == fofaReplies[i].data.results IN
      /\ clientErrors = << >>
      /\ Len(fofaResults) = 1
      /\ Len(fofaResults[1]) = Len(raw.rows)
      /\ \A k \in 1..Len(raw.rows) :
           /\ fofaResults[1][k].ip    = C11_Field(raw.rows[k], 0)
           /\ fofaResults[1][k].port  = C11_Field(raw.rows[k], 1)
           /\ fofaResults[1][k].title = C11_Field(raw.rows[k], 2)
           /\ fofaResults[1][k].host  = C11_Field(raw.rows[k], 3)
           /\ \A f \in {"ip", "port", "title", "host"} :
                fofaResults[1][k][f] \notin {Null, Undefined}
      /\ (~raw.present \/ raw.rows = << >>) => fofaResults[1] = << >>

C11_Witness ==
  /\ Len(fofaReplies) = 1
  /\ fofaReplies[1].ok
  /\ fofaReplies[1].data.results = Rows(<<RowNull, Row4>>)
  /\ Len(fofaResults) = 1
  /\ fofaResults[1][1].port = Str("")
  /\ fofaResults[1][2].host = Str("a.example.com")

\* the response body carries a raw text: the first envelope shape that has
\* an element [0] leads to a string
HasRawText(data) ==
  /\ data.body = "object"
  /\ \/ data.candidates.shape = "text"
     \/ data.candidates.shape \in {"absent", "empty"} /\ data.choices.shape = "text"

RawText(data) ==
  IF data.candidates.shape = "text" THEN data.candidates.text ELSE data.choices.text

\* C12: whatever raw text the completion service returned, the extraction
\* step returns a {fofa_query, explanation} result: convertTextToFofaQuery
\* does not raise, so no "LLM service call failed" error comes of it.
C12_ExtractionTotal ==
  \A i \in 1..Len(llmReplies) :
    (llmReplies[i].ok /\ HasRawText(llmReplies[i].data)) =>
      /\ Len(llmResponse) = 1
      /\ DOMAIN llmResponse[1] = {"fofa_query", "explanation"}
      /\ \A j \in 1..Len(clientErrors) :
           ~StartsWith(clientErrors[j].message, MSG_LLM_FAILED)

C12_Witness ==
  /\ Len(llmReplies) = 1
  /\ llmReplies[1].ok
  /\ HasRawText(llmReplies[1].data)
  /\ RawText(llmReplies[1].data) = "null"
  /\ llmResponse = <<LLMResponse(Null, Str(MSG_PARSE_FAILED))>>
  /\ pc = "done"

\* C13: the object with fofa_query = q and explanation = e, bare or inside
\* a fence (tagged json or not) with white space around it, is extracted as
\* exactly q and e.
C13_RoundTrip ==
  (answerPc = "extracted" /\ answerQuery.t = "string") =>
    extracted = <<Returned(LLMResponse(answerQuery, Str(answerExplanation)))>>

C13_Witness ==
  /\ answerPc = "extracted"
  /\ answerQuery = Str("\"\\")
  /\ answerExplanation = "say \"hi\""
  /\ answerWrapping = "padded json fence"
  /\ extracted = <<Returned(LLMResponse(Str("\"\\"), Str("say \"hi\"")))>>

\* C14: the object whose fofa_query is the literal null and whose
\* explanation is e is extracted as query null and explanation exactly e,
\* which is not the parse-failure result with its fixed explanation.
C14_NullPassthrough ==
  (answerPc = "extracted" /\ answerQuery = Null) =>
    /\ extracted = <<Returned(LLMResponse(Null, Str(answerExplanation)))>>
    /\ extracted # <<Returned(LLMResponse(Null, Str(MSG_PARSE_FAILED)))>>

C14_Witness ==
  /\ answerPc = "extracted"
  /\ answerQuery = Null
  /\ answerExplanation = "too vague"
  /\ answerWrapping = "bare"
  /\ rawText = "{\"fofa_query\":null,\"explanation\":\"too vague\"}"
  /\ extracted = <<Returned(LLMResponse(Null, Str("too vague")))>>

\* text that is not JSON, with the two quoted pairs on separate lines and
\* backslash-escaped quotes inside the fofa_query value
C15_Text == "\"fofa_query\": \"country=\\\"US\\\"\"\n\"explanation\": \"y\""

\* C15: from such a text the extraction recovers the complete fofa_query
\* value (as written, or with the escapes undone) and the explanation, and
\* it is the line-by-line scan that recovers them, not the two patterns
\* applied to the whole text.
C15_FallbackRecovers ==
  \A i \in 1..Len(llmReplies) :
    (llmReplies[i].ok /\ HasRawText(llmReplies[i].data)
       /\ RawText(llmReplies[i].data) = C15_Text) =>
      /\ Len(llmResponse) = 1
      /\ llmResponse[1].fofa_query \in {Str("country=\\\"US\\\""), Str("country=\"US\"")}
      /\ llmResponse[1].explanation = Str("y")
      /\ ~(MatchKeyValue(C15_Text, "fofa_query").found
             /\ MatchKeyValue(C15_Text, "explanation").found)

\* the text is a structured object with exactly the keys fofa_query and
\* explanation
C16_IsTheObject(text) ==
  LET parsed == JsonParse(CleanContent(text)) IN
  /\ parsed.ok
  /\ parsed.val = Obj
  /\ {parsed.props[k].key : k \in 1..Len(parsed.props)} = {"fofa_query", "explanation"}

\* C16: when the text is not that object and the fallbacks find no query in
\* it, the result is exactly {fofa_query: null, explanation: the fixed
\* failure text}: the explanation is that string, never undefined and never
\* a text scraped by a fallback.
C16_TotalFailure ==
  \A i \in 1..Len(llmReplies) :
    (/\ llmReplies[i].ok
     /\ HasRawText(llmReplies[i].data)
     /\ ~C16_IsTheObject(Trim(RawText(llmReplies[i].data)))
     /\ ~Truthy(extractFromText(Trim(RawText(llmReplies[i].data))).fofa_query)) =>
      llmResponse = <<LLMResponse(Null, Str(MSG_PARSE_FAILED))>>

\* C17: in every result convertTextToFofaQuery returns, fofa_query is
\* absent (null or undefined) or a string that is not empty.
C17_QueryNonEmptyString ==
  \A i \in 1..Len(llmResponse) :
    \/ llmResponse[i].fofa_query \in {Null, Undefined}
    \/ /\ llmResponse[i].fofa_query.t = "string"
       /\ llmResponse[i].fofa_query.v # ""

\* C18: when the completion request fails (network, timeout, HTTP status),
\* convertTextToFofaQuery raises one error whose message is the "LLM service
\* call failed" prefix followed by the underlying message, processUserQuery
\* returns success=false with that message, and nothing is sent to the
\* search service.
C18_LlmFailureSurfaces ==
  \A i \in 1..Len(llmReplies) :
    ~llmReplies[i].ok =>
      /\ llmResponse = << >>
      /\ Len(clientErrors) = 1
      /\ clientErrors[1].message = MSG_LLM_FAILED \o llmReplies[i].err.message
      /\ Includes(clientErrors[1].message, llmReplies[i].err.message)
      /\ result.kind = "returned"
      /\ ~result.success
      /\ result.error = clientErrors[1].message
      /\ fofaCalls = << >>
      /\ fofaRequests = << >>
      /\ pc = "done"

C18_Witness ==
  /\ mode = "nl"
  /\ Len(llmReplies) = 1
  /\ ~llmReplies[1].ok
  /\ llmReplies[1].err.code = "ECONNABORTED"
  /\ result.error = MSG_LLM_FAILED \o "timeout of 300000ms exceeded"
  /\ fofaRequests = << >>

\* the envelope shape leads all the way to a text
C19_Complete(slot) == slot.shape = "text"

\* C19: the text is taken from the candidates shape when that shape matches
\* completely, else from the choices shape when that one does; when neither
\* does, convertTextToFofaQuery returns no result and fails with the
\* "unable to parse the API response format" error and no other.
C19_EnvelopeDetection ==
  \A i \in 1..Len(llmReplies) :
    llmReplies[i].ok =>
      LET d == llmReplies[i].data IN
      /\ (d.body = "object" /\ C19_Complete(d.candidates)) =>
           llmResponse = <<ParseContent(Trim(d.candidates.text)).value>>
      /\ (d.body = "object" /\ ~C19_Complete(d.candidates) /\ C19_Complete(d.choices)) =>
           llmResponse = <<ParseContent(Trim(d.choices.text)).value>>
      /\ (d.body = "null" \/ (~C19_Complete(d.candidates) /\ ~C19_Complete(d.choices))) =>
           /\ llmResponse = << >>
           /\ Len(clientErrors) = 1
           /\ Includes(clientErrors[1].message, MSG_BAD_FORMAT)

\* the invocations and tool calls the process has taken up
C20_Handled == toolCalls + Len(llmRequests) + Len(fofaCalls)

\* C20: a process started without LLM_API_KEY, FOFA_EMAIL or FOFA_API_KEY
\* fails at startup: it never serves, takes up no query or tool call, and
\* finds the missing configuration at most once, at startup and not while
\* it handles a request.
C20_StartupFailure ==
  (proc \in {"cli", "mcp"} /\ env # EnvVars) =>
    /\ procState \in {"new", "exit0", "exit1"}
    /\ C20_Handled = 0
    /\ Len(detections) <= 1
    /\ \A i \in 1..Len(detections) : detections[i].during = "startup"

\* inputSchema of both tools: size has default 50, minimum 1, maximum 1000
SizeDefault == 50
SizeMinimum == 1
SizeMaximum == 1000

\* C21: in the MCP server the size that a search request carries is 50 when
\* the tool call left size out, and is otherwise within 1..1000; a size
\* outside 1..1000 never reaches a search request.
C21_SizeWithinBounds ==
  (proc = "mcp" /\ toolRequest # << >>) =>
    \A i \in 1..Len(fofaRequests) :
        /\ toolRequest[1].size = NoSize => fofaRequests[i].size = SizeDefault
        /\ fofaRequests[i].size \in SizeMinimum..SizeMaximum

\* the request invocation i was started with
C22_Request(call) ==
  ToolCall(IF call.mode = "nl" THEN "natural_language_query" ELSE "direct_fofa_query",
           call.input, call.size)

\* the invocation run by itself on a fresh object, given the arguments of
\* call and the remote responses call has received so far
C22_Alone(call) ==
  LET afterFofa(c) == IF c.pc = "awaitFofa" /\ call.fofaReplies # << >>
                        THEN IF proc = "mcp"
                               THEN ToolResumeFofa(c, call.fofaReplies[1])
                               ELSE OrchestratorResumeFofa(c, call.fofaReplies[1])
                        ELSE c
      afterLlm(c) == IF c.pc = "awaitLLM" /\ call.llmReplies # << >>
                       THEN IF proc = "mcp"
                              THEN ToolResumeLlm(c, call.llmReplies[1])
                              ELSE OrchestratorResumeLlm(c, call.llmReplies[1])
                       ELSE c
  IN  afterFofa(afterLlm(IF proc = "mcp"
                           THEN InvokeTool(C22_Request(call), FALSE, env, apiUrl)
                           ELSE InvokeOrchestrator(C22_Request(call), apiUrl)))

\* the query an invocation is to search for, given what it holds when run
\* by itself: its own fofaQuery, or the fofa_query extracted from the answer
\* to its own completion request
C22_OwnQuery(alone) ==
  IF alone.mode = "direct" THEN alone.input.v
  ELSE alone.llmResponse[1].fofa_query.v

\* C22: invocations in flight at once on one Orchestrator or one MCP server
\* do not interfere: the completion request of each carries its own text,
\* the search request of each carries the query derived from its own input
\* and its own size, and what each has sent and returned is what it sends
\* and returns when run by itself with the same input and the same remote
\* responses to its own requests.
C22_NoInterference ==
  \A i \in Slots : \A call \in {invocations[i]} :
    call.pc # "idle" =>
      \A alone \in {C22_Alone(call)} :
        /\ \A k \in 1..Len(call.llmRequests) :
             call.llmRequests[k].messages[1].content = buildPrompt(call.input.v)
        /\ \A k \in 1..Len(call.fofaRequests) :
             /\ call.fofaRequests[k].qbase64 = Base64(C22_OwnQuery(alone))
             /\ call.fofaRequests[k].size = EffectiveSize(call.size)
        /\ call.out = alone.out
        /\ call = alone

\* two invocations with different inputs were in flight at once, the first
\* has returned a success with its own query while the second still waits
\* on the search service with another query
C22_Witness ==
  /\ proc = "none"
  /\ invocations[1].pc = "done"
  /\ invocations[1].mode = "nl"
  /\ invocations[1].out[1].success
  /\ invocations[1].out[1].query = Str("port=80")
  /\ invocations[2].pc = "awaitFofa"
  /\ invocations[2].mode = "nl"
  /\ invocations[2].input # invocations[1].input
  /\ invocations[2].llmResponse[1].fofa_query = Str("a=\"b\"")

\* the success object of processUserQuery or executeDirectQuery carries
\* the query that was handed to the search client, sent as it is, and the
\* list the search client returned
C23_QueryAndRecords ==
  /\ Len(fofaCalls) = 1
  /\ Len(fofaRequests) = 1
  /\ Len(fofaResults) = 1
  /\ result.query.t = "string"
  /\ result.query = fofaCalls[1].query
  /\ fofaRequests[1].qbase64 = Base64(result.query.v)
  /\ result.data = fofaResults[1]

\* C23: a success of processUserQuery has the query the translation
\* produced, which is the string sent to the search client, the
\* translation's explanation, which is a string, and the records the search
\* client returned; a success of executeDirectQuery has the caller's query
\* and the fixed direct-query explanation.
C23_SuccessShaping ==
  (proc = "none" /\ result.kind = "returned" /\ result.success) =>
    /\ C23_QueryAndRecords
    /\ mode = "nl" =>
         /\ result.query = llmResponse[1].fofa_query
         /\ result.explanation = llmResponse[1].explanation
         /\ result.explanation.t = "string"
    /\ mode = "direct" =>
         /\ result.query = Str(userInput)
         /\ result.explanation = Str(MSG_DIRECT_QUERY)

\* C24: the request sent to the completion service holds exactly one
\* message, of role user, and its content contains the user's text as
\* typed, whichever version of buildPrompt the build holds.
C24_PromptCarriesText ==
  \A k \in 1..Len(llmRequests) :
      /\ Len(llmRequests[k].messages) = 1
      /\ llmRequests[k].messages[1].role = "user"
      /\ Includes(llmRequests[k].messages[1].content, userInput)

\* a request of the invocation ended with the client-side timeout
C25_LlmTimedOut ==
  \E i \in 1..Len(llmReplies) :
      ~llmReplies[i].ok /\ llmReplies[i].err.code = "ECONNABORTED"

C25_FofaTimedOut ==
  \E i \in 1..Len(fofaReplies) :
      ~fofaReplies[i].ok /\ fofaReplies[i].err.code = "ECONNABORTED"

\* C25: given that every remote call ends (with a response or with the
\* client-side timeout), every invocation of processUserQuery or
\* executeDirectQuery ends by returning a ProcessResult; once a call has
\* timed out the invocation has returned a failure, and no request was sent
\* after the one that timed out.
C25_Terminates ==
  /\ (pc # "idle") ~> (pc = "done" /\ result.kind = "returned")
  /\ []((C25_LlmTimedOut \/ C25_FofaTimedOut) =>
          /\ pc = "done"
          /\ result.kind = "returned"
          /\ ~result.success
          /\ Len(llmRequests) = Len(llmReplies)
          /\ Len(fofaRequests) = Len(fofaReplies)
          /\ Len(llmReplies) <= 1
          /\ Len(fofaReplies) <= 1
          /\ C25_LlmTimedOut => Len(fofaRequests) = 0)

\* processUserQuery has returned a failure after its search request timed out
C25_Witness ==
  /\ pc = "done"
  /\ mode = "nl"
  /\ Len(fofaReplies) = 1
  /\ ~fofaReplies[1].ok
  /\ fofaReplies[1].err.code = "ECONNABORTED"
  /\ result.kind = "returned"
  /\ ~result.success
  /\ Len(fofaRequests) = 1

\* C26: in the MCP server llmService is null exactly when fofaService is
\* null, no request goes to the completion or the search service while
\* they are null, and once initializeServices has set them no later tool
\* call builds them again or resets them.
C26_ServicesSetOnce ==
  /\ [](proc = "mcp" =>
          /\ llmService <=> fofaService
          /\ (Len(llmRequests) + Len(fofaRequests) > 0) => (llmService /\ fofaService)
          /\ serviceBuilds <= 1
          /\ llmService <=> (serviceBuilds = 1))
  /\ [][(proc = "mcp" /\ llmService /\ fofaService) =>
          (llmService' /\ fofaService' /\ serviceBuilds' = serviceBuilds)]_vars

\* the server has built its services on the first tool call and has taken
\* up another tool call, which sent a request, with the services it had
C26_Witness ==
  /\ proc = "mcp"
  /\ toolCalls = 2
  /\ serviceBuilds = 1
  /\ llmService /\ fofaService
  /\ Len(fofaRequests) = 1

\* the tool call is one the handler turns down before it reaches a tool
\* handler: no such tool, no arguments, or the required argument missing
\* or empty
C27_TurnedDown(req) ==
  \/ req.name \notin {"natural_language_query", "direct_fofa_query"}
  \/ ~req.args
  \/ ~Truthy(req.text)

\* C27: every MCP tool call is answered with one text, whatever the tool
\* name and the arguments: while the call waits on a remote service there
\* is no answer yet, and when it ends there is exactly one.  A server whose
\* services cannot be initialized answers every call with the
\* initialization error; otherwise a call with an unknown tool name, without
\* arguments or with a missing or empty query / fofaQuery is answered with
\* an error text, reaches no tool handler and sends no request.
C27_AlwaysAnswered ==
  (proc = "mcp" /\ toolRequest # << >>) =>
    /\ pc \in {"idle", "awaitLLM", "awaitFofa"}
    /\ result = NoResult
    /\ Len(toolResponse) = (IF pc = "idle" THEN 1 ELSE 0)
    /\ ~initializeServices(env) =>
         /\ toolResponse = <<MCP_ERROR \o MSG_INIT_FAILED>>
         /\ Len(llmRequests) + Len(fofaCalls) + Len(fofaRequests) = 0
    /\ (initializeServices(env) /\ C27_TurnedDown(toolRequest[1])) =>
         /\ pc = "idle"
         /\ SubSeq(toolResponse[1], 1, Len(MCP_ERROR)) = MCP_ERROR
         /\ toolResponse[1] # MCP_ERROR \o MSG_INIT_FAILED
         /\ Len(llmRequests) + Len(fofaCalls) + Len(fofaRequests) = 0

\* a server with its services set was sent direct_fofa_query with an empty
\* fofaQuery and answered that the required argument is missing
C27_Witness ==
  /\ proc = "mcp"
  /\ llmService /\ fofaService
  /\ toolRequest = <<ToolCall("direct_fofa_query", Str(""), NoSize)>>
  /\ toolResponse = <<MCP_ERROR \o MSG_MISSING_ARG \o "fofaQuery">>
  /\ Len(fofaRequests) = 0

\* number of places of text at which needle occurs
C28_Count(text, needle) ==
  Cardinality({i \in 1..(Len(text) - Len(needle) + 1) :
                 SubSeq(text, i, i + Len(needle) - 1) = needle})

\* q occurs in text as a quoted string once only, and there it is the
\* value of the explanation key
C28_OnlyTheExplanation(text, q) ==
  /\ C28_Count(text, "\"" \o q \o "\"") = 1
  /\ MatchKeyValue(text, "explanation").found
  /\ MatchKeyValue(text, "explanation").group = q

\* C28: the query the extraction returns is never a string that the raw
\* text holds only as the value of its explanation key; so a text that is
\* not JSON, with `"fofa_query": null` and a quoted explanation on one line,
\* yields no query.
C28_ExplanationNeverQuery ==
  \A i \in 1..Len(llmReplies) :
    (llmReplies[i].ok /\ HasRawText(llmReplies[i].data) /\ Len(llmResponse) = 1) =>
      \A response \in {llmResponse[1]} :
        /\ response.fofa_query.t = "string" =>
             ~C28_OnlyTheExplanation(RawText(llmReplies[i].data), response.fofa_query.v)
        /\ RawText(llmReplies[i].data) = "\"fofa_query\": null, \"explanation\": \"too vague\"" =>
             ~Truthy(response.fofa_query)

\* the reply carries a raw text whose strict parse failed, so that the
\* result came of the pattern scrape or of the line scan
C29_ThroughFallback(reply) ==
  /\ reply.ok
  /\ HasRawText(reply.data)
  /\ StrictParse(Trim(RawText(reply.data))).threw

\* C29: a result that convertTextToFofaQuery returns after the strict parse
\* failed, with a query present, has a query that is a non-empty string
\* without a double quote, and an explanation that is a non-empty string.
C29_FallbackResultShape ==
  \A i \in 1..Len(llmReplies) :
    (C29_ThroughFallback(llmReplies[i]) /\ Len(llmResponse) = 1) =>
      \A response \in {llmResponse[1]} :
        Truthy(response.fofa_query) =>
          /\ response.fofa_query.t = "string"
          /\ Len(response.fofa_query.v) > 0
          /\ Occurrences(response.fofa_query.v, "\"") = 0
          /\ response.explanation.t = "string"
          /\ Len(response.explanation.v) > 0

C29_Witness ==
  /\ Len(llmReplies) = 1
  /\ C29_ThroughFallback(llmReplies[1])
  /\ RawText(llmReplies[1].data) = "fofa_query: \"port=80\""
  /\ llmResponse = <<LLMResponse(Str("port=80"), Str(MSG_FROM_TEXT))>>
  /\ Len(fofaRequests) = 1

\* the text a tool handler returns reports a failure
C30_FailureText(text) ==
  \/ StartsWith(text, MCP_ERROR)
  \/ StartsWith(text, MCP_QUERY_FAILED)
  \/ StartsWith(text, MCP_NOT_UNDERSTOOD)

\* the tool call that carries the arguments of the Orchestrator invocation
C30_ToolRequest ==
  ToolCall(IF mode = "nl" THEN "natural_language_query" ELSE "direct_fofa_query",
           Str(userInput), sizeArg)

\* the MCP handler run on the input and the remote responses of the
\* Orchestrator invocation, as far as that one has come
C30_ToolRun ==
  LET heardFofa(call) ==
        IF call.pc = "awaitFofa" /\ Len(fofaReplies) = 1
          THEN ToolResumeFofa(call, fofaReplies[1]) ELSE call
      heardLlm(call) ==
        IF call.pc = "awaitLLM" /\ Len(llmReplies) = 1
          THEN heardFofa(ToolResumeLlm(call, llmReplies[1])) ELSE heardFofa(call)
  IN  heardLlm(InvokeTool(C30_ToolRequest, TRUE, EnvVars, apiUrl))

\* C30: for the same text, size and remote responses the MCP handler and
\* the Orchestrator method send the same requests to the completion service
\* and to the search service, end together, and the handler returns a
\* failure text exactly when the method returns success = false.
C30_EquivalentPipelines ==
  (mode \in {"nl", "direct"} /\ userInput # "") =>
    \A tool \in {C30_ToolRun} :
      /\ tool.llmRequests = llmRequests
      /\ tool.fofaRequests = fofaRequests
      /\ (tool.pc = "done") = (pc = "done")
      /\ pc = "done" =>
           /\ Len(tool.out) = 1
           /\ C30_FailureText(tool.out[1]) = ~result.success

====
